---- MODULE Spec2Model ----
(***************************************************************************)
(* eCFR ingestion (scripts/fetch_ecfr.py) over the relational store        *)
(* declared in src/app/models.py.                                          *)
(*                                                                         *)
(* Python values that may be None are modelled as sequences of length at   *)
(* most one: None is <<>>, a present value v is <<v>>.  Handlers return    *)
(* [db, ret, exc]: the store after the call, the returned value and the    *)
(* exception that left the call (None when it returned).                   *)
(***************************************************************************)
EXTENDS Integers, Sequences, FiniteSets, TLC

VARIABLES
    db,         \* the rows the open session sees (flushed, not yet committed)
    committed,  \* the rows that are durable
    pc,         \* position of the handler that is running
    input,      \* what the handler under study was given
    output      \* what it gave back

vars == <<db, committed, pc, input, output>>

(***************************************************************************)
(* Bounds of the model.                                                    *)
(***************************************************************************)
MaxNodes == 3
NumEditions == 2
MaxRows == 4
MaxTitles == 2
MaxFeedNodes == 2
MaxElements == 2
MaxFetches == 101
MaxIdle == 1
UnitsPerSlot == 2
MaxLoopRefs == 11

\* The largest skip and the largest limit of a listing request.
MaxSkip == 3

MaxLimit == 3

\* The requests that are served at the same time.
MaxInFlight == 2

(***************************************************************************)
(* Python and SQL values.                                                  *)
(***************************************************************************)
None == <<>>

Some(v) == <<v>>

\* `x or None`: a falsy value (None, the empty string) becomes None.
OrNone(v) == IF v = None \/ v = Some("") THEN None ELSE v

\* SQL `=`: never true when either side is NULL.
ColumnEq_sql(col, val) == col # None /\ val # None /\ col = val

\* SQLAlchemy's `column == value`: IS NULL for a None value, SQL `=` otherwise
\* (which is never true of a NULL column).
ColumnEq(col, val) == IF val = None THEN col = None ELSE col # None /\ col = val

Ok(s, v) == [db |-> s, ret |-> v, exc |-> None]

Raise(s, e) == [db |-> s, ret |-> None, exc |-> Some(e)]

\* Result.scalar_one_or_none(): the row, None, or MultipleResultsFound.
scalar_one_or_none(s, rows) ==
    IF rows = {} THEN Ok(s, None)
    ELSE IF Cardinality(rows) = 1 THEN Ok(s, Some(CHOOSE r \in rows : TRUE))
    ELSE Raise(s, "MultipleResultsFound")

(***************************************************************************)
(* The store: one set of rows per table, and the two id sequences.         *)
(***************************************************************************)
EmptyStore ==
    [titles |-> {}, agencies |-> {}, cfr_references |-> {},
     agency_cfr_references |-> {}, agencies_id_seq |-> 0,
     cfr_references_id_seq |-> 0]

\* UniqueConstraint("title", "chapter", "part", "subchapter"): two rows
\* conflict when all four columns are equal and none is NULL (a NULL is
\* distinct from every value, itself included).
UniqueConflict(r, q) ==
    /\ r.title # None /\ r.title = q.title
    /\ r.chapter # None /\ r.chapter = q.chapter
    /\ r.part # None /\ r.part = q.part
    /\ r.subchapter # None /\ r.subchapter = q.subchapter

\* INSERT INTO cfr_references: the row gets the next id unless the unique
\* constraint rejects it.
insert_cfr_reference(s, title, chapter, part, subchapter) ==
    LET row == [id |-> s.cfr_references_id_seq + 1, title |-> title,
                chapter |-> chapter, part |-> part,
                subchapter |-> subchapter, content |-> None]
    IN IF \E q \in s.cfr_references : UniqueConflict(row, q)
       THEN Raise(s, "IntegrityError")
       ELSE Ok([s EXCEPT !.cfr_references = @ \cup {row},
                         !.cfr_references_id_seq = @ + 1], Some(row))

\* INSERT INTO agency_cfr_references: the pair is the primary key.
insert_agency_cfr_reference(s, agency_id, cfr_reference_id) ==
    LET row == [agency_id |-> agency_id, cfr_reference_id |-> cfr_reference_id]
    IN IF row \in s.agency_cfr_references
       THEN Raise(s, "IntegrityError")
       ELSE Ok([s EXCEPT !.agency_cfr_references = @ \cup {row}], Some(row))

(***************************************************************************)
(* get_or_create_cfr_reference                                             *)
(***************************************************************************)
\* The lookup with SQL `=` on every column, None values included.
select_cfr_reference_sql(s, title, chapter, part, subchapter) ==
    {r \in s.cfr_references :
        /\ ColumnEq_sql(r.title, title)
        /\ ColumnEq_sql(r.chapter, chapter)
        /\ ColumnEq_sql(r.part, part)
        /\ ColumnEq_sql(r.subchapter, subchapter)}

\* Lines 116-121: the rows that match the four values, NULL matching None.
select_cfr_reference(s, title, chapter, part, subchapter) ==
    {r \in s.cfr_references :
        /\ ColumnEq(r.title, title)
        /\ ColumnEq(r.chapter, chapter)
        /\ ColumnEq(r.part, part)
        /\ ColumnEq(r.subchapter, subchapter)}

\* Lines 124-132 alone: a new row every time, without the lookup.
get_or_create_cfr_reference_always_creating(s, title, chapter, part, subchapter) ==
    insert_cfr_reference(s, title, chapter, part, subchapter)

\* Lines 122-134: the one matching row, or a new row, flushed.
get_or_create_cfr_reference(s, title, chapter, part, subchapter) ==
    LET cfr_ref == scalar_one_or_none(
                       s, select_cfr_reference(s, title, chapter, part, subchapter))
    IN IF cfr_ref.exc # None THEN cfr_ref
       ELSE IF cfr_ref.ret = None
            THEN insert_cfr_reference(s, title, chapter, part, subchapter)
            ELSE cfr_ref

(***************************************************************************)
(* upsert_agency                                                           *)
(***************************************************************************)
\* The lookup with the two ids exchanged.
select_agency_cfr_reference_swapped(s, agency_id, cfr_reference_id) ==
    {x \in s.agency_cfr_references :
        /\ x.agency_id = cfr_reference_id
        /\ x.cfr_reference_id = agency_id}

\* The lookup by reference alone.
select_agency_cfr_reference_any_agency(s, agency_id, cfr_reference_id) ==
    {x \in s.agency_cfr_references : x.cfr_reference_id = cfr_reference_id}

\* Lines 177-181: the association rows of this agency with this reference.
select_agency_cfr_reference(s, agency_id, cfr_reference_id) ==
    {x \in s.agency_cfr_references :
        /\ x.agency_id = agency_id
        /\ x.cfr_reference_id = cfr_reference_id}

\* Lines 167-188: resolve each reference of the agency and link it once.
RECURSIVE link_cfr_references(_, _, _)
link_cfr_references(s, agency_id, cfr_refs_data) ==
    IF cfr_refs_data = <<>> THEN Ok(s, None)
    ELSE LET d == Head(cfr_refs_data)
             cfr_ref == get_or_create_cfr_reference(
                            s, d.title, d.chapter, d.part, d.subchapter)
         IN IF cfr_ref.exc # None THEN cfr_ref
            ELSE LET existing_assoc == select_agency_cfr_reference(
                                           cfr_ref.db, agency_id, cfr_ref.ret[1].id)
                     added == IF existing_assoc = {}
                              THEN insert_agency_cfr_reference(
                                       cfr_ref.db, agency_id, cfr_ref.ret[1].id)
                              ELSE Ok(cfr_ref.db, None)
                 IN IF added.exc # None THEN added
                    ELSE link_cfr_references(added.db, agency_id, Tail(cfr_refs_data))

\* Lines 143-165 without the assignment of line 163: an existing row keeps
\* its parent_id.
write_agency_keep_parent(s, agency_data, parent_id) ==
    LET agency == scalar_one_or_none(
                      s, {a \in s.agencies : a.slug = agency_data.slug})
    IN IF agency.exc # None THEN agency
       ELSE IF agency.ret = None
            THEN LET row == [id |-> s.agencies_id_seq + 1,
                             name |-> agency_data.name,
                             short_name |-> OrNone(agency_data.short_name),
                             display_name |-> agency_data.display_name,
                             sortable_name |-> agency_data.sortable_name,
                             slug |-> agency_data.slug,
                             parent_id |-> parent_id]
                 IN Ok([s EXCEPT !.agencies = @ \cup {row},
                                 !.agencies_id_seq = @ + 1], row.id)
            ELSE LET old == agency.ret[1]
                     row == [old EXCEPT
                                 !.name = agency_data.name,
                                 !.short_name = OrNone(agency_data.short_name),
                                 !.display_name = agency_data.display_name,
                                 !.sortable_name = agency_data.sortable_name]
                 IN Ok([s EXCEPT !.agencies = (@ \ {old}) \cup {row}], row.id)

\* Lines 143-165 without the else branch: a row that exists is left as it
\* is.
write_agency_insert_only(s, agency_data, parent_id) ==
    LET agency == scalar_one_or_none(
                      s, {a \in s.agencies : a.slug = agency_data.slug})
    IN IF agency.exc # None THEN agency
       ELSE IF agency.ret = None
            THEN LET row == [id |-> s.agencies_id_seq + 1,
                             name |-> agency_data.name,
                             short_name |-> OrNone(agency_data.short_name),
                             display_name |-> agency_data.display_name,
                             sortable_name |-> agency_data.sortable_name,
                             slug |-> agency_data.slug,
                             parent_id |-> parent_id]
                 IN Ok([s EXCEPT !.agencies = @ \cup {row},
                                 !.agencies_id_seq = @ + 1], row.id)
            ELSE Ok(s, agency.ret[1].id)

\* Lines 143-165: insert the agency, or overwrite the row with its slug; the
\* value is the id of the row.
write_agency(s, agency_data, parent_id) ==
    LET agency == scalar_one_or_none(
                      s, {a \in s.agencies : a.slug = agency_data.slug})
    IN IF agency.exc # None THEN agency
       ELSE IF agency.ret = None
            THEN LET row == [id |-> s.agencies_id_seq + 1,
                             name |-> agency_data.name,
                             short_name |-> OrNone(agency_data.short_name),
                             display_name |-> agency_data.display_name,
                             sortable_name |-> agency_data.sortable_name,
                             slug |-> agency_data.slug,
                             parent_id |-> parent_id]
                 IN Ok([s EXCEPT !.agencies = @ \cup {row},
                                 !.agencies_id_seq = @ + 1], row.id)
            ELSE LET old == agency.ret[1]
                     row == [old EXCEPT
                                 !.name = agency_data.name,
                                 !.short_name = OrNone(agency_data.short_name),
                                 !.display_name = agency_data.display_name,
                                 !.sortable_name = agency_data.sortable_name,
                                 !.parent_id = parent_id]
                 IN Ok([s EXCEPT !.agencies = (@ \ {old}) \cup {row}], row.id)

\* Lines 137-194: the agency, its references, then its children.
RECURSIVE upsert_agency(_, _, _)
RECURSIVE upsert_children(_, _, _)
upsert_agency(s, agency_data, parent_id) ==
    LET agency == write_agency(s, agency_data, parent_id)
    IN IF agency.exc # None THEN agency
       ELSE LET linked == link_cfr_references(
                              agency.db, agency.ret, agency_data.cfr_references)
            IN IF linked.exc # None THEN linked
               ELSE LET done == upsert_children(
                                    linked.db, agency_data.children, agency.ret)
                    IN IF done.exc # None THEN done
                       ELSE Ok(done.db,
                               CHOOSE a \in done.db.agencies : a.id = agency.ret)

\* Lines 190-192: the children, in order, under this agency's id.
upsert_children(s, children, agency_id) ==
    IF children = <<>> THEN Ok(s, None)
    ELSE LET child == upsert_agency(s, Head(children), Some(agency_id))
         IN IF child.exc # None THEN child
            ELSE upsert_children(child.db, Tail(children), agency_id)

(***************************************************************************)
(* Upstream agencies.json: trees of at most MaxNodes agencies over Slugs;  *)
(* an agency's fields and references are those of one upstream edition.    *)
(***************************************************************************)
Slugs == {"usda", "fs"}

Editions == 1 .. NumEditions

Ref(title, chapter, part, subchapter) ==
    [title |-> title, chapter |-> chapter, part |-> part,
     subchapter |-> subchapter]

CfrRefData ==
    {Ref(Some(7), Some("I"), Some(100), None),
     Ref(Some(7), None, None, None),
     Ref(Some(40), Some("I"), Some(50), Some("C"))}

UpstreamRefs(slug, ed) ==
    CASE slug = "usda" /\ ed = 1 ->
             <<Ref(Some(7), Some("I"), Some(100), None), Ref(Some(7), None, None, None)>>
      [] slug = "usda" /\ ed = 2 ->
             <<Ref(Some(7), None, None, None), Ref(Some(7), None, None, None)>>
      [] slug = "fs" /\ ed = 1 ->
             <<Ref(Some(7), Some("I"), Some(100), None)>>
      [] slug = "fs" /\ ed = 2 -> <<>>
      [] OTHER -> <<Ref(Some(40), Some("I"), Some(50), Some("C"))>>

UpstreamShortName(slug, ed) ==
    CASE ed % 3 = 1 -> Some("")
      [] ed % 3 = 2 -> Some(slug \o "-short")
      [] OTHER -> None

AgencyData(slug, ed, children) ==
    [name |-> slug \o "-name-" \o ToString(ed),
     short_name |-> UpstreamShortName(slug, ed),
     display_name |-> slug \o "-display-" \o ToString(ed),
     sortable_name |-> slug \o "-sort-" \o ToString(ed),
     slug |-> slug,
     cfr_references |-> UpstreamRefs(slug, ed),
     children |-> children]

RECURSIVE TreesOfSize(_, _, _)
RECURSIVE ForestsOfSize(_, _, _)
TreesOfSize(S, n, ed) ==
    {AgencyData(slug, ed, kids) :
        slug \in S, kids \in ForestsOfSize(S, n - 1, ed)}

ForestsOfSize(S, n, ed) ==
    IF n = 0 THEN {<<>>}
    ELSE UNION {{<<t>> \o f : t \in TreesOfSize(S, k, ed),
                              f \in ForestsOfSize(S, n - k, ed)} : k \in 1 .. n}

\* Trees over two slugs in every edition (fields and references change
\* between editions).
AgencyTrees ==
    UNION {TreesOfSize(Slugs, n, ed) : n \in 1 .. MaxNodes, ed \in Editions}

\* Trees over three slugs in the first edition: a root, a child and a
\* grandchild can all differ.
DeepSlugs == Slugs \cup {"ams"}

DeepTrees == UNION {TreesOfSize(DeepSlugs, n, 1) : n \in 1 .. MaxNodes}

(***************************************************************************)
(* parse_date and upsert_title_metadata                                    *)
(***************************************************************************)
DigitValue ==
    [c \in {"0", "1", "2", "3", "4", "5", "6", "7", "8", "9"} |->
        CASE c = "0" -> 0 [] c = "1" -> 1 [] c = "2" -> 2 [] c = "3" -> 3
          [] c = "4" -> 4 [] c = "5" -> 5 [] c = "6" -> 6 [] c = "7" -> 7
          [] c = "8" -> 8 [] c = "9" -> 9]

IsDigits(str) == \A i \in 1 .. Len(str) : SubSeq(str, i, i) \in DOMAIN DigitValue

RECURSIVE ParseInt(_)
ParseInt(str) ==
    IF str = "" THEN 0
    ELSE 10 * ParseInt(SubSeq(str, 1, Len(str) - 1))
         + DigitValue[SubSeq(str, Len(str), Len(str))]

IsLeapYear(y) == y % 4 = 0 /\ (y % 100 # 0 \/ y % 400 = 0)

DaysInMonth(y, m) ==
    CASE m \in {4, 6, 9, 11} -> 30
      [] m = 2 -> IF IsLeapYear(y) THEN 29 ELSE 28
      [] OTHER -> 31

\* date.fromisoformat on "YYYY-MM-DD": the date, or ValueError.
fromisoformat(str) ==
    IF /\ Len(str) = 10
       /\ SubSeq(str, 5, 5) = "-"
       /\ SubSeq(str, 8, 8) = "-"
       /\ IsDigits(SubSeq(str, 1, 4))
       /\ IsDigits(SubSeq(str, 6, 7))
       /\ IsDigits(SubSeq(str, 9, 10))
    THEN LET y == ParseInt(SubSeq(str, 1, 4))
             m == ParseInt(SubSeq(str, 6, 7))
             d == ParseInt(SubSeq(str, 9, 10))
         IN IF y >= 1 /\ m \in 1 .. 12 /\ d \in 1 .. DaysInMonth(y, m)
            THEN [ret |-> Some([year |-> y, month |-> m, day |-> d]), exc |-> None]
            ELSE [ret |-> None, exc |-> Some("ValueError")]
    ELSE [ret |-> None, exc |-> Some("ValueError")]

parse_date(date_string) ==
    IF date_string = None THEN [ret |-> None, exc |-> None]
    ELSE fromisoformat(date_string[1])

Pad(n, width) ==
    LET str == ToString(n)
    IN IF Len(str) >= width THEN str
       ELSE SubSeq("0000", 1, width - Len(str)) \o str

\* date.isoformat()
isoformat(d) == Pad(d.year, 4) \o "-" \o Pad(d.month, 2) \o "-" \o Pad(d.day, 2)

\* title_data.get("reserved", False)
GetReserved(title_data) ==
    IF title_data.reserved = None THEN FALSE ELSE title_data.reserved[1]

\* Lines 214-219 with a merge in place of the overwrite: a field that the
\* input lacks keeps its old value.
overwrite_title_merging(old, title_data, amended, issued, as_of) ==
    [old EXCEPT
        !.name = title_data.name,
        !.latest_amended_on = IF amended = None THEN @ ELSE amended,
        !.latest_issue_date = IF issued = None THEN @ ELSE issued,
        !.up_to_date_as_of = IF as_of = None THEN @ ELSE as_of,
        !.reserved = IF title_data.reserved = None THEN @ ELSE title_data.reserved[1]]

\* Lines 214-219: the fields of the existing row after the assignments.
overwrite_title(old, title_data, amended, issued, as_of) ==
    [old EXCEPT
        !.name = title_data.name,
        !.latest_amended_on = amended,
        !.latest_issue_date = issued,
        !.up_to_date_as_of = as_of,
        !.reserved = GetReserved(title_data)]

\* The dates are parsed in the order of the fields; the first string that
\* is no date raises ValueError before anything is flushed.
upsert_title_metadata(s, title_data) ==
    LET title == scalar_one_or_none(
                     s, {t \in s.titles : t.number = title_data.number})
        amended == parse_date(title_data.latest_amended_on)
        issued == parse_date(title_data.latest_issue_date)
        as_of == parse_date(title_data.up_to_date_as_of)
    IN IF title.exc # None THEN title
       ELSE IF amended.exc # None THEN Raise(s, amended.exc[1])
       ELSE IF issued.exc # None THEN Raise(s, issued.exc[1])
       ELSE IF as_of.exc # None THEN Raise(s, as_of.exc[1])
       ELSE IF title.ret = None
            THEN LET row == [number |-> title_data.number,
                             name |-> title_data.name,
                             latest_amended_on |-> amended.ret,
                             latest_issue_date |-> issued.ret,
                             up_to_date_as_of |-> as_of.ret,
                             reserved |-> GetReserved(title_data)]
                 IN Ok([s EXCEPT !.titles = @ \cup {row}], Some(row))
            ELSE LET old == title.ret[1]
                     row == overwrite_title(old, title_data, amended.ret,
                                            issued.ret, as_of.ret)
                 IN Ok([s EXCEPT !.titles = (@ \ {old}) \cup {row}], Some(row))

(***************************************************************************)
(* Upstream titles.json entries.                                           *)
(***************************************************************************)
TitleNumbers == {7, 40}

TitleNames == {"Agriculture", "Agriculture (Updated)"}

TitleData ==
    [number : TitleNumbers,
     name : TitleNames,
     latest_amended_on : {None, Some("2024-01-15"), Some("2023-02-29")},
     latest_issue_date : {None, Some("2024-02-29"), Some("not-a-date")},
     up_to_date_as_of : {None, Some("2025-12-31"), Some("2024-13-01")},
     reserved : {None, Some(TRUE), Some(FALSE)}]

\* The nodes of a tree.
RECURSIVE NodesOf(_)
NodesOf(t) ==
    {t} \cup UNION {NodesOf(t.children[i]) : i \in 1 .. Len(t.children)}

(***************************************************************************)
(* Calls of the upserters on an open session.                              *)
(***************************************************************************)
InitStore ==
    /\ db = EmptyStore
    /\ committed = EmptyStore
    /\ pc = "session"
    /\ input = None
    /\ output = None

\* One call; an exception leaves the session and the store as they were.
Call(result) ==
    /\ pc = "session"
    /\ db' = IF result.exc = None THEN result.db ELSE db
    /\ UNCHANGED <<committed, pc, input, output>>

UpsertAgency == \E t \in AgencyTrees : Call(upsert_agency(db, t, None))

ResolveRef ==
    \E d \in CfrRefData :
        Call(get_or_create_cfr_reference(db, d.title, d.chapter, d.part, d.subchapter))

NextAgencies == UpsertAgency \/ ResolveRef

SpecAgencies == InitStore /\ [][NextAgencies]_vars

UpsertTitle == \E d \in TitleData : Call(upsert_title_metadata(db, d))

NextTitles == UpsertTitle

SpecTitles == InitStore /\ [][NextTitles]_vars

\* A direct insert of a Reference row, flushed and committed (the way
\* tests/test_models.py adds rows); the table is capped at MaxRows rows.
InsertReference ==
    \E d \in CfrRefData :
        LET r == insert_cfr_reference(db, d.title, d.chapter, d.part, d.subchapter)
        IN /\ pc = "session"
           /\ Cardinality(db.cfr_references) < MaxRows
           /\ db' = IF r.exc = None THEN r.db ELSE db
           /\ committed' = db'
           /\ UNCHANGED <<pc, input, output>>

NextInsert == InsertReference \/ ResolveRef

SpecInsert == InitStore /\ [][NextInsert]_vars

\* One call of upsert_agency on a root; input keeps the tree and output the
\* store before the call and the row returned.
UpsertRoot ==
    \E t \in AgencyTrees :
        LET r == upsert_agency(db, t, None)
        IN /\ pc = "session"
           /\ db' = IF r.exc = None THEN r.db ELSE db
           /\ input' = Some(t)
           /\ output' = [before |-> db, ret |-> r.ret, exc |-> r.exc]
           /\ UNCHANGED <<committed, pc>>

NextUpsert == UpsertRoot

SpecUpsert == InitStore /\ [][NextUpsert]_vars

UpsertDeepTree == \E t \in DeepTrees : Call(upsert_agency(db, t, None))

NextTrees == UpsertDeepTree

SpecTrees == InitStore /\ [][NextTrees]_vars

(***************************************************************************)
(* The titles and agencies phases and ingest_ecfr_data.                    *)
(*                                                                         *)
(* An upstream response is [ok, body]: ok is FALSE when the request or     *)
(* raise_for_status() raises httpx.HTTPError; body is the list under the   *)
(* "titles" or "agencies" key, None when the key is missing.               *)
(***************************************************************************)
RECURSIVE upsert_titles(_, _)
upsert_titles(s, titles) ==
    IF titles = <<>> THEN Ok(s, None)
    ELSE LET title == upsert_title_metadata(s, Head(titles))
         IN IF title.exc # None THEN title
            ELSE upsert_titles(title.db, Tail(titles))

fetch_and_store_title_metadata(s, response) ==
    IF ~response.ok THEN Raise(s, "HTTPError")
    ELSE upsert_titles(s, IF response.body = None THEN <<>> ELSE response.body[1])

RECURSIVE upsert_agencies(_, _)
upsert_agencies(s, agencies) ==
    IF agencies = <<>> THEN Ok(s, None)
    ELSE LET agency == upsert_agency(s, Head(agencies), None)
         IN IF agency.exc # None THEN agency
            ELSE upsert_agencies(agency.db, Tail(agencies))

\* The agencies phase as a synchronisation: rows of agencies that the
\* response does not list are deleted.
fetch_and_store_agencies_sync(s, response) ==
    IF ~response.ok THEN Raise(s, "HTTPError")
    ELSE LET agencies == IF response.body = None THEN <<>> ELSE response.body[1]
             done == upsert_agencies(s, agencies)
             listed == UNION {{n.slug : n \in NodesOf(agencies[i])} :
                                 i \in 1 .. Len(agencies)}
         IN IF done.exc # None THEN done
            ELSE Ok([done.db EXCEPT
                        !.agencies = {a \in @ : a.slug \in listed}], None)

fetch_and_store_agencies(s, response) ==
    IF ~response.ok THEN Raise(s, "HTTPError")
    ELSE upsert_agencies(s, IF response.body = None THEN <<>> ELSE response.body[1])

\* The result of fetch_cfr_xml_content for one reference: None after an
\* httpx.HTTPError, else the string extract_text_from_xml returned.
FetchResults == {None, Some(""), Some("summary")}

\* Lines 258-327: every Reference row whose title has a Title row with an
\* up_to_date_as_of date and whose fetch returned a non-empty string gets
\* that string as content; contents maps a row id to its fetch result.
fetch_and_populate_cfr_content(s, contents) ==
    LET dated(r) == \E t \in s.titles :
                        Some(t.number) = r.title /\ t.up_to_date_as_of # None
        populate(r) == IF dated(r) /\ contents[r.id] \notin {None, Some("")}
                       THEN [r EXCEPT !.content = contents[r.id]]
                       ELSE r
    IN Ok([s EXCEPT !.cfr_references = {populate(r) : r \in @}], None)

FeedTitles ==
    {[number |-> 7, name |-> "Agriculture",
      latest_amended_on |-> Some("2024-01-15"),
      latest_issue_date |-> Some("2024-02-29"),
      up_to_date_as_of |-> Some("2025-12-31"), reserved |-> Some(FALSE)],
     [number |-> 7, name |-> "Agriculture (Updated)",
      latest_amended_on |-> None, latest_issue_date |-> None,
      up_to_date_as_of |-> None, reserved |-> None],
     [number |-> 40, name |-> "Agriculture",
      latest_amended_on |-> None, latest_issue_date |-> None,
      up_to_date_as_of |-> Some("2025-12-31"), reserved |-> Some(TRUE)],
     [number |-> 40, name |-> "Agriculture (Updated)",
      latest_amended_on |-> None, latest_issue_date |-> Some("not-a-date"),
      up_to_date_as_of |-> None, reserved |-> None]}

SeqsUpTo(S, n) == UNION {[1 .. k -> S] : k \in 0 .. n}

Responses(bodies) ==
    {[ok |-> FALSE, body |-> None], [ok |-> TRUE, body |-> None]}
        \cup {[ok |-> TRUE, body |-> Some(b)] : b \in bodies}

TitlesResponses == Responses(SeqsUpTo(FeedTitles, MaxTitles))

AgenciesResponses ==
    Responses(UNION {ForestsOfSize(Slugs, n, ed) :
                         n \in 0 .. MaxFeedNodes, ed \in Editions})

\* Lines 339-364 with an except clause that does not raise again: the run
\* goes on with the next phase.
Step_swallowing(r, next) ==
    /\ db' = IF r.exc = None THEN r.db ELSE committed
    /\ pc' = next
    /\ UNCHANGED <<committed, input, output>>

\* Lines 339-364: a phase that returns moves the run on; an exception leaves
\* the `with Session` block without a commit, so the session's writes are
\* rolled back, and is raised again after the finally clause.
Step(r, next) ==
    IF r.exc = None
    THEN /\ db' = r.db
         /\ pc' = next
         /\ UNCHANGED <<committed, input, output>>
    ELSE /\ db' = committed
         /\ pc' = "dispose"
         /\ output' = r.exc
         /\ UNCHANGED <<committed, input>>

\* The titles phase with a session.commit() of its own at its end.
TitlesPhase_committing(response) ==
    LET r == fetch_and_store_title_metadata(db, response)
    IN /\ pc = "titles"
       /\ input.fetch_titles
       /\ db' = IF r.exc = None THEN r.db ELSE committed
       /\ committed' = db'
       /\ pc' = IF r.exc = None THEN "agencies" ELSE "dispose"
       /\ output' = r.exc
       /\ UNCHANGED input

TitlesPhase(response) ==
    /\ pc = "titles"
    /\ input.fetch_titles
    /\ Step(fetch_and_store_title_metadata(db, response), "agencies")

SkipTitles ==
    /\ pc = "titles"
    /\ ~input.fetch_titles
    /\ pc' = "agencies"
    /\ UNCHANGED <<db, committed, input, output>>

\* The agencies phase without the test of line 347.
AgenciesPhase_unconditional(response) ==
    /\ pc = "agencies"
    /\ Step(fetch_and_store_agencies(db, response), "content")

AgenciesPhase(response) ==
    /\ pc = "agencies"
    /\ input.fetch_agencies
    /\ Step(fetch_and_store_agencies(db, response), "content")

SkipAgencies ==
    /\ pc = "agencies"
    /\ ~input.fetch_agencies
    /\ pc' = "content"
    /\ UNCHANGED <<db, committed, input, output>>

\* The content phase ends with the commit of line 322; the commit of line
\* 318 needs ten Reference rows, more than the upstream data here produce.
ContentPhase ==
    /\ pc = "content"
    /\ input.fetch_cfr_content
    /\ \E contents \in [{r.id : r \in db.cfr_references} -> FetchResults] :
           db' = fetch_and_populate_cfr_content(db, contents).db
    /\ committed' = db'
    /\ pc' = "commit"
    /\ UNCHANGED <<input, output>>

SkipContent ==
    /\ pc = "content"
    /\ ~input.fetch_cfr_content
    /\ pc' = "commit"
    /\ UNCHANGED <<db, committed, input, output>>

\* Line 359: session.commit().
Commit ==
    /\ pc = "commit"
    /\ committed' = db
    /\ pc' = "dispose"
    /\ UNCHANGED <<db, input, output>>

\* Lines 363-364: engine.dispose() ends the run, after the commit as after
\* an exception.
Dispose ==
    /\ pc = "dispose"
    /\ pc' = "idle"
    /\ UNCHANGED <<db, committed, input, output>>

\* A run of ingest_ecfr_data opens a session on the committed rows.
StartRun ==
    /\ pc = "idle"
    /\ \E ft, fa, fc \in BOOLEAN :
           input' = [fetch_titles |-> ft, fetch_agencies |-> fa,
                     fetch_cfr_content |-> fc]
    /\ pc' = "titles"
    /\ db' = committed
    /\ output' = None
    /\ UNCHANGED committed

Init ==
    /\ db = EmptyStore
    /\ committed = EmptyStore
    /\ pc = "idle"
    /\ input = None
    /\ output = None

FetchTitles == \E response \in TitlesResponses : TitlesPhase(response)

FetchAgencies == \E response \in AgenciesResponses : AgenciesPhase(response)

Next ==
    \/ StartRun
    \/ FetchTitles
    \/ SkipTitles
    \/ FetchAgencies
    \/ SkipAgencies
    \/ ContentPhase
    \/ SkipContent
    \/ Commit
    \/ Dispose

Spec == Init /\ [][Next]_vars

\* One run on an empty store, its flags and upstream responses fixed at the
\* start.
InitFresh ==
    /\ db = EmptyStore
    /\ committed = EmptyStore
    /\ pc = "titles"
    /\ input \in [fetch_titles : BOOLEAN, fetch_agencies : BOOLEAN,
                  fetch_cfr_content : BOOLEAN,
                  titles_response : TitlesResponses,
                  agencies_response : AgenciesResponses]
    /\ output = None

FreshTitles == TitlesPhase(input.titles_response)

FreshAgencies == AgenciesPhase(input.agencies_response)

NextFresh ==
    \/ FreshTitles
    \/ SkipTitles
    \/ FreshAgencies
    \/ SkipAgencies
    \/ ContentPhase
    \/ SkipContent
    \/ Commit
    \/ Dispose

SpecFresh == InitFresh /\ [][NextFresh]_vars

(***************************************************************************)
(* extract_text_from_xml                                                   *)
(*                                                                         *)
(* A string is a sequence of runs [c, n]: n >= 1 copies of character c,    *)
(* where " " stands for any whitespace character.  An XML document is      *)
(* [wellformed, elements]: whether ET.fromstring parses it, and the text   *)
(* and tail of the elements that root.iter() yields, in document order.    *)
(***************************************************************************)
max_size == 1048576

prompt_chars == 100000

EmptyStr == <<>>

Run(c, n) == <<[c |-> c, n |-> n]>>

RECURSIVE StrLen(_)
StrLen(str) == IF str = <<>> THEN 0 ELSE Head(str).n + StrLen(Tail(str))

\* str[:k]
RECURSIVE Take(_, _)
Take(str, k) ==
    IF str = <<>> \/ k <= 0 THEN <<>>
    ELSE IF Head(str).n >= k THEN Run(Head(str).c, k)
    ELSE <<Head(str)>> \o Take(Tail(str), k - Head(str).n)

RECURSIVE LStrip(_)
LStrip(str) ==
    IF str # <<>> /\ Head(str).c = " " THEN LStrip(Tail(str)) ELSE str

RECURSIVE RStrip(_)
RStrip(str) ==
    IF str # <<>> /\ str[Len(str)].c = " "
    THEN RStrip(SubSeq(str, 1, Len(str) - 1))
    ELSE str

\* str.strip()
Strip(str) == RStrip(LStrip(str))

\* Lines 34-38: the stripped text and tail of every element that has them.
RECURSIVE text_parts(_)
text_parts(elements) ==
    IF elements = <<>> THEN <<>>
    ELSE LET element == Head(elements)
         IN (IF element.text # None /\ element.text[1] # EmptyStr
             THEN <<Strip(element.text[1])>> ELSE <<>>)
            \o (IF element.tail # None /\ element.tail[1] # EmptyStr
                THEN <<Strip(element.tail[1])>> ELSE <<>>)
            \o text_parts(Tail(elements))

\* Line 39: " ".join(part for part in text_parts if part)
RECURSIVE join_parts(_)
join_parts(parts) ==
    IF parts = <<>> THEN EmptyStr
    ELSE LET rest == join_parts(Tail(parts))
         IN IF Head(parts) = EmptyStr THEN rest
            ELSE IF rest = EmptyStr THEN Head(parts)
            ELSE Head(parts) \o Run(" ", 1) \o rest

\* Lines 68-69 without the truncation.
fallback_text_untruncated(text) == text

\* Lines 68-69: the text, cut to max_size characters.
fallback_text(text) ==
    IF StrLen(text) > max_size THEN Take(text, max_size) ELSE text

\* Lines 44-69 with an except clause that lets a timeout of the call through.
summarize_reraising_timeout(text, api) ==
    IF api.fails /\ api.error = "APITimeoutError"
    THEN [ret |-> EmptyStr, exc |-> <<api.error>>, calls |-> 1,
          prompt |-> Take(text, prompt_chars)]
    ELSE [ret |-> IF api.fails THEN Take(text, max_size) ELSE api.summary,
          exc |-> None, calls |-> 1, prompt |-> Take(text, prompt_chars)]

\* Lines 44-69: one call of the summarization API on the first prompt_chars
\* characters; its summary, or the fallback text when the call raises.
summarize(text, api) ==
    IF api.fails
    THEN [ret |-> fallback_text(text), exc |-> None, calls |-> 1,
          prompt |-> Take(text, prompt_chars)]
    ELSE [ret |-> api.summary, exc |-> None, calls |-> 1,
          prompt |-> Take(text, prompt_chars)]

\* The function without the `if not text` return of lines 41-42.
extract_text_from_xml_unguarded(xml_content, api) ==
    IF ~xml_content.wellformed
    THEN [ret |-> EmptyStr, exc |-> None, calls |-> 0, prompt |-> EmptyStr]
    ELSE summarize(join_parts(text_parts(xml_content.elements)), api)

extract_text_from_xml(xml_content, api) ==
    IF ~xml_content.wellformed
    THEN [ret |-> EmptyStr, exc |-> None, calls |-> 0, prompt |-> EmptyStr]
    ELSE LET text == join_parts(text_parts(xml_content.elements))
         IN IF text = EmptyStr
            THEN [ret |-> EmptyStr, exc |-> None, calls |-> 0, prompt |-> EmptyStr]
            ELSE summarize(text, api)

Fragments ==
    {None,
     Some(EmptyStr),
     Some(Run(" ", 3)),
     Some(Run(" ", 2) \o Run("x", 5) \o Run(" ", 1)),
     Some(Run("x", 1048575)),
     Some(Run("x", 1048576)),
     Some(Run("x", 2000000))}

Elements == [text : Fragments, tail : Fragments]

XmlDocuments ==
    {[wellformed |-> FALSE, elements |-> <<>>]}
        \cup {[wellformed |-> TRUE, elements |-> e] :
                 e \in UNION {[1 .. k -> Elements] : k \in 1 .. MaxElements}}

\* What can leave the try block of lines 44-63 as an Exception: an error of
\* the API client, its timeout, or the IndexError of content[0] on a message
\* without content.
ApiErrors ==
    {"APIConnectionError", "APITimeoutError", "APIStatusError", "IndexError"}

ApiBehaviours ==
    {[fails |-> TRUE, error |-> e, summary |-> EmptyStr] : e \in ApiErrors}
        \cup {[fails |-> FALSE, error |-> "", summary |-> Run("s", 400)],
              [fails |-> FALSE, error |-> "", summary |-> EmptyStr]}

InitExtract ==
    /\ db = EmptyStore
    /\ committed = EmptyStore
    /\ pc = "extract"
    /\ input \in [xml_content : XmlDocuments, api : ApiBehaviours]
    /\ output = None

Extract ==
    /\ pc = "extract"
    /\ output' = extract_text_from_xml(input.xml_content, input.api)
    /\ pc' = "returned"
    /\ UNCHANGED <<db, committed, input>>

NextExtract == Extract

SpecExtract == InitExtract /\ [][NextExtract]_vars

(***************************************************************************)
(* fetch_cfr_xml_content                                                   *)
(*                                                                         *)
(* The upstream's answer to the one GET is [error, xml_content]: the       *)
(* httpx exception that client.get or raise_for_status() raises ("" when   *)
(* the request succeeds) and the document of response.text.  The result    *)
(* is [ret, exc, requests, acquired, calls]: the returned value, the       *)
(* exception that left the call, the requests sent, the limiter slots      *)
(* taken and the summarization calls made.                                 *)
(***************************************************************************)
\* Subclasses of httpx.HTTPError: transport errors, timeouts (which are
\* transport errors) and the error status that raise_for_status() raises.
HTTPErrors == {"ConnectError", "ReadTimeout", "HTTPStatusError"}

\* Lines 86-94: the URL and the parameters that are truthy.
request_of(cfr_date, title, chapter, part, subchapter) ==
    [url |-> "https://www.ecfr.gov/api/versioner/v1/full/" \o cfr_date
                 \o "/title-" \o ToString(title) \o ".xml",
     chapter |-> IF chapter \in {None, Some("")} THEN None ELSE chapter,
     part |-> IF part \in {None, Some(0)} THEN None ELSE Some(ToString(part[1])),
     subchapter |-> IF subchapter \in {None, Some("")} THEN None ELSE subchapter]

\* The function with `except httpx.HTTPStatusError`: a transport error
\* leaves the call.
fetch_cfr_xml_content_catching_status(cfr_date, title, chapter, part, subchapter, upstream, api) ==
    LET request == request_of(cfr_date, title, chapter, part, subchapter)
    IN IF upstream.error = "HTTPStatusError"
       THEN [ret |-> None, exc |-> None, requests |-> <<request>>,
             acquired |-> 1, calls |-> 0]
       ELSE IF upstream.error # ""
       THEN [ret |-> None, exc |-> Some(upstream.error),
             requests |-> <<request>>, acquired |-> 1, calls |-> 0]
       ELSE LET text == extract_text_from_xml(upstream.xml_content, api)
            IN [ret |-> Some(text.ret), exc |-> text.exc,
                requests |-> <<request>>, acquired |-> 1, calls |-> text.calls]

\* The function with a second attempt after a failed request.
fetch_cfr_xml_content_retrying(cfr_date, title, chapter, part, subchapter, upstream, api) ==
    LET request == request_of(cfr_date, title, chapter, part, subchapter)
    IN IF upstream.error \in HTTPErrors
       THEN [ret |-> None, exc |-> None, requests |-> <<request, request>>,
             acquired |-> 2, calls |-> 0]
       ELSE LET text == extract_text_from_xml(upstream.xml_content, api)
            IN [ret |-> Some(text.ret), exc |-> text.exc,
                requests |-> <<request>>, acquired |-> 1, calls |-> text.calls]

\* Lines 75-104: inside one acquisition of the limiter, one GET; its text goes
\* through extract_text_from_xml; an httpx.HTTPError gives None.
fetch_cfr_xml_content(cfr_date, title, chapter, part, subchapter, upstream, api) ==
    LET request == request_of(cfr_date, title, chapter, part, subchapter)
    IN IF upstream.error \in HTTPErrors
       THEN [ret |-> None, exc |-> None, requests |-> <<request>>,
             acquired |-> 1, calls |-> 0]
       ELSE IF upstream.error # ""
       THEN [ret |-> None, exc |-> Some(upstream.error),
             requests |-> <<request>>, acquired |-> 1, calls |-> 0]
       ELSE LET text == extract_text_from_xml(upstream.xml_content, api)
            IN IF text.exc # None
               THEN [ret |-> None, exc |-> text.exc, requests |-> <<request>>,
                     acquired |-> 1, calls |-> text.calls]
               ELSE [ret |-> Some(text.ret), exc |-> None,
                     requests |-> <<request>>, acquired |-> 1,
                     calls |-> text.calls]

\* Documents of at most one element.
FetchedDocuments == {d \in XmlDocuments : Len(d.elements) <= 1}

UpstreamBehaviours ==
    {[error |-> e, xml_content |-> [wellformed |-> FALSE, elements |-> <<>>]] :
         e \in HTTPErrors}
        \cup {[error |-> "", xml_content |-> d] : d \in FetchedDocuments}

CfrDates == {[year |-> 2025, month |-> 12, day |-> 31],
             [year |-> 2024, month |-> 2, day |-> 9]}

InitFetch ==
    /\ db = EmptyStore
    /\ committed = EmptyStore
    /\ pc = "fetch"
    /\ input \in [cfr_date : CfrDates, ref : CfrRefData,
                  upstream : UpstreamBehaviours, api : ApiBehaviours]
    /\ output = None

Fetch ==
    /\ pc = "fetch"
    /\ output' = fetch_cfr_xml_content(
                     isoformat(input.cfr_date), input.ref.title[1],
                     input.ref.chapter, input.ref.part, input.ref.subchapter,
                     input.upstream, input.api)
    /\ pc' = "returned"
    /\ UNCHANGED <<db, committed, input>>

NextFetch == Fetch

SpecFetch == InitFetch /\ [][NextFetch]_vars

(***************************************************************************)
(* The loop of fetch_and_populate_cfr_content.                             *)
(*                                                                         *)
(* input.cfr_refs is the list of line 268, as ids, in the order in which   *)
(* the select returned the rows; input.populated is the set of rows that   *)
(* had a content before the phase.  output holds idx, the three counters,  *)
(* the numbers of requests sent, limiter slots taken and summarization     *)
(* calls made, and what the last iteration did.                            *)
(***************************************************************************)
commit_every == 10

\* The test `if content is not None`.
Truthy_not_none(content) == content # None

\* Line 308: `if content`, false of None and of the empty string.
Truthy(content) == content # None /\ content[1] # EmptyStr

\* The iteration with a test that leaves out the references that have a
\* content already.
process_reference_skipping_populated(s, c, out, cfr_ref, upstream, api) ==
    LET idx == out.idx + 1
        dated == {t \in s.titles : Some(t.number) = cfr_ref.title
                                       /\ t.up_to_date_as_of # None}
    IN IF dated = {} \/ cfr_ref.content # None
       THEN [db |-> s, committed |-> c, exc |-> None,
             output |-> [out EXCEPT
                            !.idx = idx, !.skipped_count = @ + 1,
                            !.last = [id |-> cfr_ref.id, outcome |-> "skipped",
                                      error |-> ""]]]
       ELSE LET content == fetch_cfr_xml_content(
                               isoformat((CHOOSE t \in dated : TRUE).up_to_date_as_of[1]),
                               cfr_ref.title[1], cfr_ref.chapter, cfr_ref.part,
                               cfr_ref.subchapter, upstream, api)
                written == IF Truthy(content.ret)
                           THEN [s EXCEPT !.cfr_references =
                                    (@ \ {cfr_ref})
                                        \cup {[cfr_ref EXCEPT !.content = content.ret]}]
                           ELSE s
            IN [db |-> written, exc |-> None,
                committed |-> IF idx % commit_every = 0 THEN written ELSE c,
                output |-> [out EXCEPT
                               !.idx = idx,
                               !.updated_count = IF Truthy(content.ret) THEN @ + 1 ELSE @,
                               !.failed_count = IF Truthy(content.ret) THEN @ ELSE @ + 1,
                               !.requests = @ + Len(content.requests),
                               !.acquired = @ + content.acquired,
                               !.calls = @ + content.calls,
                               !.last = [id |-> cfr_ref.id,
                                         outcome |-> IF Truthy(content.ret)
                                                     THEN "updated" ELSE "failed",
                                         error |-> upstream.error]]]

\* The iteration with the fetch ahead of the test of the title's date.
process_reference_fetching_first(s, c, out, cfr_ref, upstream, api) ==
    LET idx == out.idx + 1
        title_metadata == scalar_one_or_none(
                              s, {t \in s.titles : Some(t.number) = cfr_ref.title})
        content == fetch_cfr_xml_content(
                       "1970-01-01", cfr_ref.title[1], cfr_ref.chapter,
                       cfr_ref.part, cfr_ref.subchapter, upstream, api)
        skip == title_metadata.ret = None
                    \/ title_metadata.ret[1].up_to_date_as_of = None
        update == ~skip /\ Truthy(content.ret)
        written == IF update
                   THEN [s EXCEPT !.cfr_references =
                            (@ \ {cfr_ref})
                                \cup {[cfr_ref EXCEPT !.content = content.ret]}]
                   ELSE s
    IN [db |-> written, exc |-> None,
        committed |-> IF ~skip /\ idx % commit_every = 0 THEN written ELSE c,
        output |-> [out EXCEPT
                       !.idx = idx,
                       !.updated_count = IF update THEN @ + 1 ELSE @,
                       !.failed_count = IF ~skip /\ ~update THEN @ + 1 ELSE @,
                       !.skipped_count = IF skip THEN @ + 1 ELSE @,
                       !.requests = @ + Len(content.requests),
                       !.acquired = @ + content.acquired,
                       !.calls = @ + content.calls,
                       !.last = [id |-> cfr_ref.id,
                                 outcome |-> IF skip THEN "skipped"
                                             ELSE IF update THEN "updated"
                                             ELSE "failed",
                                 error |-> upstream.error]]]

\* Lines 281-318: one iteration of the loop, for the reference cfr_ref and
\* the upstream and summarization behaviour that its fetch meets.  It gives
\* the session's rows, the committed rows, the loop's variables and the
\* exception that left the iteration, if any.
process_reference(s, c, out, cfr_ref, upstream, api) ==
    LET idx == out.idx + 1
        title_metadata == scalar_one_or_none(
                              s, {t \in s.titles : Some(t.number) = cfr_ref.title})
    IN IF title_metadata.ret = None
              \/ title_metadata.ret[1].up_to_date_as_of = None
       THEN [db |-> s, committed |-> c, exc |-> None,
             output |-> [out EXCEPT
                            !.idx = idx, !.skipped_count = @ + 1,
                            !.last = [id |-> cfr_ref.id, outcome |-> "skipped",
                                      error |-> ""]]]
       ELSE LET cfr_date == isoformat(title_metadata.ret[1].up_to_date_as_of[1])
                content == fetch_cfr_xml_content(
                               cfr_date, cfr_ref.title[1], cfr_ref.chapter,
                               cfr_ref.part, cfr_ref.subchapter, upstream, api)
                written == IF Truthy(content.ret)
                           THEN [s EXCEPT !.cfr_references =
                                    (@ \ {cfr_ref})
                                        \cup {[cfr_ref EXCEPT !.content = content.ret]}]
                           ELSE s
            IN IF content.exc # None
               THEN [db |-> s, committed |-> c, exc |-> content.exc,
                     output |-> [out EXCEPT
                                    !.idx = idx,
                                    !.requests = @ + Len(content.requests),
                                    !.acquired = @ + content.acquired,
                                    !.last = [id |-> cfr_ref.id, outcome |-> "raised",
                                              error |-> upstream.error]]]
               ELSE
               [db |-> written, exc |-> None,
                committed |-> IF idx % commit_every = 0 THEN written ELSE c,
                output |-> [out EXCEPT
                               !.idx = idx,
                               !.updated_count = IF Truthy(content.ret) THEN @ + 1 ELSE @,
                               !.failed_count = IF Truthy(content.ret) THEN @ ELSE @ + 1,
                               !.requests = @ + Len(content.requests),
                               !.acquired = @ + content.acquired,
                               !.calls = @ + content.calls,
                               !.last = [id |-> cfr_ref.id,
                                         outcome |-> IF Truthy(content.ret)
                                                     THEN "updated" ELSE "failed",
                                         error |-> upstream.error]]]

\* Lines 274-276 and 279: the counters at zero.
LoopStart ==
    [idx |-> 0, updated_count |-> 0, failed_count |-> 0, skipped_count |-> 0,
     requests |-> 0, acquired |-> 0, calls |-> 0,
     last |-> [id |-> 0, outcome |-> "", error |-> ""]]

RowOfId(s, id) == CHOOSE r \in s.cfr_references : r.id = id

\* The iteration without line 291: a skipped reference is not counted.
Process_skipping_silently(upstreams, apis) ==
    /\ pc = "loop"
    /\ output.idx < Len(input.cfr_refs)
    /\ \E upstream \in upstreams, api \in apis :
           LET done == process_reference(
                           db, committed, output,
                           RowOfId(db, input.cfr_refs[output.idx + 1]),
                           upstream, api)
           IN /\ db' = done.db
              /\ committed' = done.committed
              /\ output' = [done.output EXCEPT !.skipped_count = output.skipped_count]
              /\ pc' = IF done.exc = None THEN "loop" ELSE "raised"
    /\ UNCHANGED input

\* One iteration, with the upstream and summarization behaviours of these
\* sets.
Process(upstreams, apis) ==
    /\ pc = "loop"
    /\ output.idx < Len(input.cfr_refs)
    /\ \E upstream \in upstreams, api \in apis :
           LET done == process_reference(
                           db, committed, output,
                           RowOfId(db, input.cfr_refs[output.idx + 1]),
                           upstream, api)
           IN /\ db' = done.db
              /\ committed' = done.committed
              /\ output' = done.output
              /\ pc' = IF done.exc = None THEN "loop" ELSE "raised"
    /\ UNCHANGED input

\* Line 322: the commit after the loop.
FinalCommit ==
    /\ pc = "loop"
    /\ output.idx = Len(input.cfr_refs)
    /\ committed' = db
    /\ pc' = "done"
    /\ UNCHANGED <<db, input, output>>

\* The store after the titles of a feed and these references were ingested
\* and an earlier content phase gave the rows in populated a content.
RECURSIVE resolve_references(_, _)
resolve_references(s, refs) ==
    IF refs = <<>> THEN s
    ELSE resolve_references(
             get_or_create_cfr_reference(
                 s, Head(refs).title, Head(refs).chapter, Head(refs).part,
                 Head(refs).subchapter).db,
             Tail(refs))

StoreWith(titles, refs, populated) ==
    LET s == resolve_references(upsert_titles(EmptyStore, titles).db, refs)
    IN [s EXCEPT !.cfr_references =
           {IF r.id \in populated THEN [r EXCEPT !.content = Some(Run("o", 7))]
            ELSE r : r \in @}]

\* The three references of CfrRefData, each present or not.
ReferenceLists ==
    {SelectSeq(<<Ref(Some(7), Some("I"), Some(100), None),
                 Ref(Some(40), Some("I"), Some(50), Some("C")),
                 Ref(Some(7), None, None, None)>>,
               LAMBDA d : d \in S) : S \in SUBSET CfrRefData}

\* The orders in which a select without ORDER BY can return these rows.
Orders(ids) ==
    {f \in [1 .. Cardinality(ids) -> ids] :
        \A i, j \in 1 .. Cardinality(ids) : i # j => f[i] # f[j]}

ContentUpstreams ==
    {u \in UpstreamBehaviours :
        \/ u.error # ""
        \/ ~u.xml_content.wellformed
        \/ /\ Len(u.xml_content.elements) = 1
           /\ u.xml_content.elements[1].tail = None
           /\ u.xml_content.elements[1].text
                  \in {Some(Run(" ", 3)),
                       Some(Run(" ", 2) \o Run("x", 5) \o Run(" ", 1))}}

ContentApis ==
    {a \in ApiBehaviours : a.fails => a.error = "APITimeoutError"}

InitContent ==
    /\ \E titles \in SeqsUpTo(FeedTitles, MaxTitles), refs \in ReferenceLists :
           /\ upsert_titles(EmptyStore, titles).exc = None
           /\ \E populated \in SUBSET (1 .. Len(refs)), order \in Orders(1 .. Len(refs)) :
                  /\ db = StoreWith(titles, refs, populated)
                  /\ input = [cfr_refs |-> order, populated |-> populated]
    /\ committed = db
    /\ pc = "loop"
    /\ output = LoopStart

ProcessReference == Process(ContentUpstreams, ContentApis)

NextContent == ProcessReference \/ FinalCommit

SpecContent == InitContent /\ [][NextContent]_vars

\* A store of n references, of parts 1 to n of chapter I: of title 7, whose
\* Title row has a date, but for the reference at position undated (if any),
\* which is of title 40, without a Title row.
LongStore(n, undated) ==
    resolve_references(
        upsert_titles(EmptyStore, <<CHOOSE t \in FeedTitles :
                                        t.number = 7 /\ t.up_to_date_as_of # None>>).db,
        [i \in 1 .. n |->
            Ref(Some(IF i = undated THEN 40 ELSE 7), Some("I"), Some(i), None)])

\* A fetch that fails in the network, and one that gives a summary.
CheckpointUpstreams ==
    {u \in ContentUpstreams :
        u.error = "ConnectError"
            \/ (u.error = "" /\ extract_text_from_xml(
                                    u.xml_content,
                                    [fails |-> TRUE, error |-> "", summary |-> EmptyStr]).ret
                                    # EmptyStr)}

CheckpointApis == {a \in ContentApis : ~a.fails /\ a.summary # EmptyStr}

\* Loops over up to MaxLoopRefs references, returned in the order of their
\* ids.
InitCheckpoint ==
    /\ \E n \in 0 .. MaxLoopRefs, undated \in 0 .. MaxLoopRefs :
           /\ undated <= n
           /\ db = LongStore(n, undated)
           /\ input = [cfr_refs |-> [i \in 1 .. n |-> i], populated |-> {}]
    /\ committed = db
    /\ pc = "loop"
    /\ output = LoopStart

ProcessLong == Process(CheckpointUpstreams, CheckpointApis)

NextCheckpoint == ProcessLong \/ FinalCommit

SpecCheckpoint == InitCheckpoint /\ [][NextCheckpoint]_vars

(***************************************************************************)
(* A run of ingest_ecfr_data and then a second run with the same flags and *)
(* the same upstream responses, on a store that earlier runs may have      *)
(* filled.                                                                 *)
(***************************************************************************)
\* Every reference gets the one fetch result.
SameContents(s, content) == [id \in {r.id : r \in s.cfr_references} |-> content]

\* The store an earlier run left: one title, a forest, every content set.
PriorRun(titles, agencies) ==
    LET with_titles == upsert_titles(EmptyStore, titles).db
        with_agencies == upsert_agencies(with_titles, agencies).db
    IN fetch_and_populate_cfr_content(
           with_agencies, SameContents(with_agencies, Some("old summary"))).db

StoresBefore ==
    {EmptyStore}
        \cup {PriorRun(<<t>>, <<AgencyData("usda", NumEditions,
                                            <<AgencyData("fs", NumEditions, <<>>)>>)>>) :
                  t \in {d \in FeedTitles : d.number = 7}}

InitTwice ==
    /\ db \in StoresBefore
    /\ committed = db
    /\ pc = "titles"
    /\ input \in [fetch_titles : BOOLEAN, fetch_agencies : BOOLEAN,
                  fetch_cfr_content : BOOLEAN,
                  titles_response : TitlesResponses,
                  agencies_response : AgenciesResponses,
                  content : FetchResults,
                  run : {1}, first : {None}]
    /\ output = None

\* The content phase when every fetch gives input.content.
SameContentPhase ==
    /\ pc = "content"
    /\ input.fetch_cfr_content
    /\ db' = fetch_and_populate_cfr_content(db, SameContents(db, input.content)).db
    /\ committed' = db'
    /\ pc' = "commit"
    /\ UNCHANGED <<input, output>>

\* The second run starts on what the first run committed, which input.first
\* keeps for the comparison.
RunAgain ==
    /\ pc = "idle"
    /\ output = None
    /\ input.run = 1
    /\ input' = [input EXCEPT !.run = 2, !.first = Some(committed)]
    /\ pc' = "titles"
    /\ db' = committed
    /\ UNCHANGED <<committed, output>>

NextTwice ==
    \/ FreshTitles
    \/ SkipTitles
    \/ FreshAgencies
    \/ SkipAgencies
    \/ SameContentPhase
    \/ SkipContent
    \/ Commit
    \/ Dispose
    \/ RunAgain

SpecTwice == InitTwice /\ [][NextTwice]_vars

(***************************************************************************)
(* One run of ingest_ecfr_data on a store that holds references already,   *)
(* its content phase taken one reference at a time; the store can fail     *)
(* under the loop (a lost connection), which raises out of the run.        *)
(***************************************************************************)
\* Feeds of at most one title and one agency.
ShortTitlesResponses == Responses(SeqsUpTo(FeedTitles, 1))

ShortAgenciesResponses ==
    Responses(UNION {ForestsOfSize(Slugs, n, ed) : n \in 0 .. 1, ed \in Editions})

InitAbort ==
    /\ \E n \in 0 .. MaxLoopRefs : db = LongStore(n, 0)
    /\ committed = db
    /\ pc = "titles"
    /\ input \in [fetch_titles : BOOLEAN, fetch_agencies : BOOLEAN,
                  fetch_cfr_content : BOOLEAN,
                  titles_response : ShortTitlesResponses,
                  agencies_response : ShortAgenciesResponses,
                  cfr_refs : {<<>>}, before : {db}]
    /\ output = None

\* Lines 267-279: the references are selected, here in the order of their
\* ids, and the counters start at zero.
ContentStart ==
    /\ pc = "content"
    /\ input.fetch_cfr_content
    /\ input' = [input EXCEPT
                    !.cfr_refs = [i \in 1 .. Cardinality(db.cfr_references) |-> i]]
    /\ output' = LoopStart
    /\ pc' = "loop"
    /\ UNCHANGED <<db, committed>>

\* Every fetch of this run gives a summary.
ProcessSummarized ==
    Process({u \in CheckpointUpstreams : u.error = ""}, CheckpointApis)

\* session.execute of line 288 raises (the connection is lost): the
\* exception leaves the loop and the run, and the session is rolled back.
LoopRaises ==
    /\ pc = "loop"
    /\ output.idx < Len(input.cfr_refs)
    /\ db' = committed
    /\ pc' = "dispose"
    /\ output' = [output EXCEPT
                     !.last = [id |-> input.cfr_refs[output.idx + 1],
                               outcome |-> "raised", error |-> "OperationalError"]]
    /\ UNCHANGED <<committed, input>>

\* Line 322: the commit after the loop, and the return to ingest_ecfr_data.
ContentEnd ==
    /\ pc = "loop"
    /\ output.idx = Len(input.cfr_refs)
    /\ committed' = db
    /\ pc' = "commit"
    /\ UNCHANGED <<db, input, output>>

NextAbort ==
    \/ FreshTitles
    \/ SkipTitles
    \/ FreshAgencies
    \/ SkipAgencies
    \/ ContentStart
    \/ SkipContent
    \/ ProcessSummarized
    \/ LoopRaises
    \/ ContentEnd
    \/ Commit
    \/ Dispose

SpecAbort == InitAbort /\ [][NextAbort]_vars

(***************************************************************************)
(* The agencies phase on a forest in which a slug can occur at several     *)
(* nodes, each occurrence with the fields and references of an edition of  *)
(* its own.                                                                *)
(***************************************************************************)
RECURSIVE MixedTrees(_)
RECURSIVE MixedForests(_)
MixedTrees(n) ==
    {AgencyData(slug, ed, kids) :
        slug \in Slugs, ed \in Editions, kids \in MixedForests(n - 1)}

MixedForests(n) ==
    IF n = 0 THEN {<<>>}
    ELSE UNION {{<<t>> \o f : t \in MixedTrees(k), f \in MixedForests(n - k)} :
                    k \in 1 .. n}

InitForest ==
    /\ db = EmptyStore
    /\ committed = EmptyStore
    /\ pc = "agencies"
    /\ input \in UNION {MixedForests(n) : n \in 0 .. MaxNodes}
    /\ output = None

\* Lines 245-253 on a response that lists the forest.
StoreForest ==
    LET r == fetch_and_store_agencies(db, [ok |-> TRUE, body |-> Some(input)])
    IN /\ pc = "agencies"
       /\ db' = IF r.exc = None THEN r.db ELSE db
       /\ output' = r.exc
       /\ pc' = "stored"
       /\ UNCHANGED <<committed, input>>

NextForest == StoreForest

SpecForest == InitForest /\ [][NextForest]_vars

(***************************************************************************)
(* Two runs of ingest_ecfr_data against one store, each in a transaction   *)
(* of its own (READ COMMITTED): a run sees the committed rows and its own, *)
(* and both work on one natural key.  Here db[r] holds the rows run r has  *)
(* flushed and not committed, and committed the rows of the store.         *)
(***************************************************************************)
Runs == {1, 2}

NoRef == Ref(None, None, None, None)

\* The natural keys: an agency slug, a title number, a reference tuple.
NaturalKeys ==
    {[table |-> "agencies", slug |-> g, number |-> 0, ref |-> NoRef] : g \in Slugs}
    \cup {[table |-> "titles", slug |-> "", number |-> n, ref |-> NoRef] :
              n \in TitleNumbers}
    \cup {[table |-> "cfr_references", slug |-> "", number |-> 0, ref |-> d] :
              d \in CfrRefData}

\* The WHERE clause of the lookup of each table.
Matches(row, key) ==
    /\ row.table = key.table
    /\ CASE key.table = "agencies" -> row.slug = key.slug
         [] key.table = "titles" -> row.number = key.number
         [] OTHER -> /\ ColumnEq(row.ref.title, key.ref.title)
                     /\ ColumnEq(row.ref.chapter, key.ref.chapter)
                     /\ ColumnEq(row.ref.part, key.ref.part)
                     /\ ColumnEq(row.ref.subchapter, key.ref.subchapter)

\* The constraint of each table: slug unique, number the primary key, and
\* the unique constraint on the four columns of a reference.
Conflicts(row, key) ==
    /\ row.table = key.table
    /\ CASE key.table = "agencies" -> row.slug = key.slug
         [] key.table = "titles" -> row.number = key.number
         [] OTHER -> UniqueConflict(row.ref, key.ref)

RowOf(key, r) ==
    [table |-> key.table, slug |-> key.slug, number |-> key.number,
     ref |-> key.ref, by |-> r]

\* Both runs start on one natural key, which the store holds or not.
InitRace ==
    /\ input \in NaturalKeys
    /\ committed \in {{}, {RowOf(input, 0)}}
    /\ db = [r \in Runs |-> {}]
    /\ pc = [r \in Runs |-> "select"]
    /\ output = [r \in Runs |-> [found |-> FALSE, exc |-> ""]]

\* The lookup of the upsert: the run sees the committed rows.
RaceSelect(r) ==
    /\ pc[r] = "select"
    /\ LET found == \E row \in committed \cup db[r] : Matches(row, input)
       IN /\ output' = [output EXCEPT ![r].found = found]
          /\ pc' = [pc EXCEPT ![r] = IF found THEN "commit" ELSE "insert"]
    /\ UNCHANGED <<db, committed, input>>

\* session.add and session.flush: the INSERT waits while a conflicting row
\* of the other run is not committed, fails on a committed one, and the
\* failure leaves the run, whose transaction is rolled back.
RaceInsert(r) ==
    /\ pc[r] = "insert"
    /\ \A q \in Runs \ {r} : \A row \in db[q] : ~Conflicts(row, input)
    /\ IF \E row \in committed : Conflicts(row, input)
       THEN /\ output' = [output EXCEPT ![r].exc = "IntegrityError"]
            /\ pc' = [pc EXCEPT ![r] = "aborted"]
            /\ db' = [db EXCEPT ![r] = {}]
       ELSE /\ db' = [db EXCEPT ![r] = @ \cup {RowOf(input, r)}]
            /\ pc' = [pc EXCEPT ![r] = "commit"]
            /\ UNCHANGED output
    /\ UNCHANGED <<committed, input>>

\* session.commit.
RaceCommit(r) ==
    /\ pc[r] = "commit"
    /\ committed' = committed \cup db[r]
    /\ db' = [db EXCEPT ![r] = {}]
    /\ pc' = [pc EXCEPT ![r] = "done"]
    /\ UNCHANGED <<input, output>>

Select == \E r \in Runs : RaceSelect(r)

Insert == \E r \in Runs : RaceInsert(r)

CommitRun == \E r \in Runs : RaceCommit(r)

NextRace == Select \/ Insert \/ CommitRun

SpecRace == InitRace /\ [][NextRace]_vars

(***************************************************************************)
(* The serving layer: the routes of routers/titles.py and                  *)
(* routers/agencies.py.  A handler gets the session of its request and     *)
(* gives the session back with its response.                               *)
(***************************************************************************)
\* raise HTTPException(status_code=...)
HTTPException(s, status_code) == [db |-> s, ret |-> None, exc |-> Some(status_code)]

\* .offset(skip).limit(limit) on the ordered rows.
offset_limit(rows, skip, limit) ==
    SubSeq(rows, skip + 1, IF skip + limit < Len(rows) THEN skip + limit ELSE Len(rows))

\* .order_by(TitleMetadata.number): the primary key leaves one order.
RECURSIVE order_by_number(_)
order_by_number(rows) ==
    IF rows = {} THEN <<>>
    ELSE LET first == CHOOSE t \in rows : \A u \in rows : t.number <= u.number
         IN <<first>> \o order_by_number(rows \ {first})

\* The rows in an order that is not the one of their numbers.
RECURSIVE order_by_nothing(_)
order_by_nothing(rows) ==
    IF rows = {} THEN <<>>
    ELSE LET first == CHOOSE t \in rows :
                          \A u \in rows : (t.number % 7) <= (u.number % 7)
         IN <<first>> \o order_by_nothing(rows \ {first})

\* list_titles with the window taken before the rows are ordered.
list_titles_window_first(s, skip, limit, include_reserved) ==
    LET rows == IF include_reserved THEN s.titles
                ELSE {t \in s.titles : t.reserved = FALSE}
        window == offset_limit(order_by_nothing(rows), skip, limit)
    IN Ok(s, order_by_number({window[i] : i \in 1 .. Len(window)}))

\* titles.py lines 32-40.
list_titles(s, skip, limit, include_reserved) ==
    LET rows == IF include_reserved THEN s.titles
                ELSE {t \in s.titles : t.reserved = FALSE}
    IN Ok(s, offset_limit(order_by_number(rows), skip, limit))

\* titles.py lines 57-65.
get_title(s, title_number) ==
    LET title == scalar_one_or_none(s, {t \in s.titles : t.number = title_number})
    IN IF title.exc # None THEN title
       ELSE IF title.ret = None THEN HTTPException(s, "404 Title not found")
       ELSE Ok(s, title.ret[1])

\* The place of a sortable_name in the collation of the database.
Collate(sortable_name) ==
    CASE sortable_name = "Alpha" -> 1
      [] sortable_name = "Bravo" -> 2
      [] OTHER -> 3

\* .order_by(Agency.sortable_name): every order of the rows in which the
\* sortable names do not descend; rows of one sortable_name come in any
\* order.
order_by_sortable_name(rows) ==
    {f \in [1 .. Cardinality(rows) -> rows] :
        /\ \A i, j \in 1 .. Cardinality(rows) : i # j => f[i] # f[j]
        /\ \A i, j \in 1 .. Cardinality(rows) :
               i < j => Collate(f[i].sortable_name) <= Collate(f[j].sortable_name)}

\* The filter of list_agencies with `if parent_id:` for the test of line 34.
filter_by_parent_truthy(s, parent_id) ==
    IF parent_id # None /\ parent_id # Some(0)
    THEN {a \in s.agencies : a.parent_id = parent_id}
    ELSE s.agencies

\* agencies.py lines 34-38.
filter_by_parent(s, parent_id) ==
    IF parent_id # None
    THEN {a \in s.agencies : a.parent_id = parent_id}
    ELSE {a \in s.agencies : a.parent_id = None}

\* agencies.py lines 32-43: the set of the lists the database can answer
\* with.
list_agencies(s, skip, limit, parent_id) ==
    {Ok(s, offset_limit(ordered, skip, limit)) :
        ordered \in order_by_sortable_name(filter_by_parent(s, parent_id))}

\* selectinload(Agency.children) and selectinload(Agency.cfr_references),
\* as tests/test_api_agencies.py reads them: the rows below the agency and
\* the references it is joined to.
children_of(s, agency) == {a \in s.agencies : a.parent_id = Some(agency.id)}

cfr_references_of(s, agency) ==
    {r \in s.cfr_references :
        \E x \in s.agency_cfr_references :
            x.agency_id = agency.id /\ x.cfr_reference_id = r.id}

agencies_of(s, cfr) ==
    {a \in s.agencies :
        \E x \in s.agency_cfr_references :
            x.agency_id = a.id /\ x.cfr_reference_id = cfr.id}

AgencyDetail(s, agency) ==
    [agency |-> agency, children |-> children_of(s, agency),
     cfr_references |-> cfr_references_of(s, agency)]

\* get_agency that answers an absent id with an empty body.
get_agency_without_check(s, agency_id) ==
    LET agency == scalar_one_or_none(s, {a \in s.agencies : a.id = agency_id})
    IN IF agency.exc # None THEN agency
       ELSE IF agency.ret = None THEN Ok(s, None)
       ELSE Ok(s, AgencyDetail(s, agency.ret[1]))

\* agencies.py lines 60-72.
get_agency(s, agency_id) ==
    LET agency == scalar_one_or_none(s, {a \in s.agencies : a.id = agency_id})
    IN IF agency.exc # None THEN agency
       ELSE IF agency.ret = None THEN HTTPException(s, "404 Agency not found")
       ELSE Ok(s, AgencyDetail(s, agency.ret[1]))

\* agencies.py lines 89-101.
get_agency_by_slug(s, slug) ==
    LET agency == scalar_one_or_none(s, {a \in s.agencies : a.slug = slug})
    IN IF agency.exc # None THEN agency
       ELSE IF agency.ret = None THEN HTTPException(s, "404 Agency not found")
       ELSE Ok(s, AgencyDetail(s, agency.ret[1]))

(***************************************************************************)
(* The pages of routers/web.py.  A page is kept as the context it hands to *)
(* its template.                                                           *)
(***************************************************************************)
\* len(content.split()) on a string of runs: the runs of other characters
\* than blanks that follow a blank or start the string.
RECURSIVE words(_, _)
words(str, after_blank) ==
    IF str = <<>> THEN 0
    ELSE IF Head(str).n = 0 THEN words(Tail(str), after_blank)
    ELSE IF Head(str).c = " " THEN words(Tail(str), TRUE)
    ELSE (IF after_blank THEN 1 ELSE 0) + words(Tail(str), FALSE)

\* web.py lines 22-26.
calculate_word_count(content) ==
    IF content = None \/ content = Some(EmptyStr) THEN 0 ELSE words(content[1], TRUE)

\* value ILIKE '%filter%' on the lower-case strings of the stores here.
ilike(value, filter) ==
    \E i \in 1 .. Len(value) - Len(filter) + 1 :
        SubSeq(value, i, i + Len(filter) - 1) = filter

\* web.py lines 57-72.
home(s) ==
    Ok(s, [total_agencies |-> Cardinality(s.agencies),
           total_titles |-> Cardinality(s.titles),
           total_cfr_refs |-> Cardinality(s.cfr_references)])

\* web.py lines 83-109: the agencies of the page with their two counts; the
\* order among equal sortable names is left out, the page being kept as a
\* set.
agencies_page(s, filter, parent_only) ==
    LET roots == IF parent_only THEN {a \in s.agencies : a.parent_id = None}
                 ELSE s.agencies
        rows == IF filter # None /\ filter # Some("")
                THEN {a \in roots : \/ ilike(a.display_name, filter[1])
                                    \/ ilike(a.name, filter[1])
                                    \/ ilike(a.slug, filter[1])}
                ELSE roots
    IN Ok(s, {[agency |-> a,
               children_count |-> Cardinality(children_of(s, a)),
               cfr_count |-> Cardinality(cfr_references_of(s, a))] : a \in rows})

\* agency_details that keeps the count it computed in the session.
agency_details_keeping_count(s, agency_id) ==
    LET agency == scalar_one_or_none(s, {a \in s.agencies : a.id = agency_id})
    IN IF agency.exc # None THEN agency
       ELSE IF agency.ret = None THEN HTTPException(s, "404 Agency not found")
       ELSE Ok([s EXCEPT !.agencies =
                   (@ \ {agency.ret[1]})
                       \cup {[agency.ret[1] EXCEPT !.short_name = Some("counted")]}],
               [detail |-> AgencyDetail(s, agency.ret[1]), word_count |-> 0])

RECURSIVE total_word_count(_)
total_word_count(cfr_refs) ==
    IF cfr_refs = {} THEN 0
    ELSE LET cfr_ref == CHOOSE r \in cfr_refs : TRUE
         IN calculate_word_count(cfr_ref.content)
                + total_word_count(cfr_refs \ {cfr_ref})

\* web.py lines 115-132.
agency_details(s, agency_id) ==
    LET agency == scalar_one_or_none(s, {a \in s.agencies : a.id = agency_id})
    IN IF agency.exc # None THEN agency
       ELSE IF agency.ret = None THEN HTTPException(s, "404 Agency not found")
       ELSE Ok(s, [detail |-> AgencyDetail(s, agency.ret[1]),
                   word_count |->
                       total_word_count(cfr_references_of(s, agency.ret[1]))])

\* web.py lines 143-159.
titles_page(s, filter, include_reserved) ==
    LET rows == IF include_reserved THEN s.titles
                ELSE {t \in s.titles : t.reserved = FALSE}
        shown == IF filter # None /\ filter # Some("")
                 THEN {t \in rows : \/ ilike(t.name, filter[1])
                                    \/ ilike(ToString(t.number), filter[1])}
                 ELSE rows
    IN Ok(s, order_by_number(shown))

\* What the search service of ecfr.gov can answer: a transport or status
\* error, a body that is not JSON, or a JSON object with its results.
Hit(title, chapter, part, subchapter) ==
    [title |-> title, chapter |-> chapter, part |-> part, subchapter |-> subchapter]

SearchBehaviours ==
    {[error |-> e, json |-> TRUE, results |-> <<>>] :
        e \in {"ConnectTimeout", "HTTPStatusError"}}
    \cup {[error |-> "", json |-> FALSE, results |-> <<>>]}
    \cup {[error |-> "", json |-> TRUE, results |-> r] :
            r \in {<<>>,
                   <<Hit(Some(7), Some("I"), Some(100), None)>>,
                   <<Hit(Some(7), None, None, None),
                     Hit(Some(40), None, Some(50), None)>>}}

\* web.py lines 216-234: the ids that .scalars().first() can return for one
\* result, None when the result names no title or part or no row matches.
first_reference(s, hit) ==
    IF hit.title = None \/ hit.part = None THEN {None}
    ELSE LET rows == {r \in s.cfr_references :
                         /\ r.title = hit.title
                         /\ r.part = hit.part
                         /\ hit.chapter # None => r.chapter = hit.chapter
                         /\ hit.subchapter # None => r.subchapter = hit.subchapter}
         IN IF rows = {} THEN {None} ELSE {Some(r.id) : r \in rows}

\* web.py lines 173-264.
search_results(s, q, upstream) ==
    IF upstream.error # ""
    THEN {Ok(s, [query |-> q, results |-> <<>>, error |-> upstream.error])}
    ELSE IF ~upstream.json THEN {Raise(s, "JSONDecodeError")}
    ELSE {Ok(s, [query |-> q, results |-> results, error |-> ""]) :
             results \in {f \in [1 .. Len(upstream.results) ->
                                    {[hit |-> h, cfr_id |-> i] :
                                        h \in {upstream.results[j] : j \in 1 .. Len(upstream.results)},
                                        i \in {None} \cup {Some(r.id) : r \in s.cfr_references}}] :
                             \A i \in 1 .. Len(upstream.results) :
                                 /\ f[i].hit = upstream.results[i]
                                 /\ f[i].cfr_id \in first_reference(s, upstream.results[i])}}

\* search_vector @@ plainto_tsquery(q) for a query of one character: the
\* summary holds a word of that character.
ts_match(content, q) ==
    /\ content # None
    /\ \E i \in 1 .. Len(content[1]) : content[1][i].c = q /\ content[1][i].n > 0

\* web.py lines 272-346: the page of matching references, in any order of
\* equal ranks, each with its agencies.
local_search_results(s, q, page, per_page) ==
    LET offset == (page - 1) * per_page
        found == {r \in s.cfr_references : ts_match(r.content, q)}
        ids == {r.id : r \in found}
    IN IF offset < 0 THEN {Raise(s, "DataError")}
       ELSE IF per_page = 0 THEN {Raise(s, "ZeroDivisionError")}
       ELSE {Ok(s, [query |-> q,
                    results |->
                        offset_limit(
                            [i \in 1 .. Cardinality(ids) |->
                                LET cfr == CHOOSE r \in found : r.id = order[i]
                                IN [cfr |-> cfr, agencies |-> agencies_of(s, cfr)]],
                            offset, per_page),
                    total_count |-> Cardinality(ids),
                    total_pages |-> (Cardinality(ids) + per_page - 1) \div per_page]) :
                order \in Orders(ids)}

\* What the corrections service of ecfr.gov can answer.
CorrectionsBehaviours ==
    {[error |-> e, json |-> TRUE, ecfr_corrections |-> <<>>] :
        e \in {"ConnectTimeout", "HTTPStatusError"}}
    \cup {[error |-> "", json |-> FALSE, ecfr_corrections |-> <<>>]}
    \cup {[error |-> "", json |-> TRUE, ecfr_corrections |-> c] :
            c \in {<<>>, <<"correction">>}}

\* web.py lines 352-377: the reads of the page before it awaits the
\* corrections.
cfr_lookup(s, cfr_id) ==
    LET cfr == scalar_one_or_none(s, {r \in s.cfr_references : r.id = cfr_id})
    IN IF cfr.exc # None THEN cfr
       ELSE IF cfr.ret = None THEN HTTPException(s, "404 CFR reference not found")
       ELSE LET title_metadata ==
                    scalar_one_or_none(
                        s, {t \in s.titles : Some(t.number) = cfr.ret[1].title})
            IN IF title_metadata.exc # None THEN title_metadata
               ELSE Ok(s, Some(
                       [cfr |-> cfr.ret[1],
                        agencies |-> agencies_of(s, cfr.ret[1]),
                        word_count |-> calculate_word_count(cfr.ret[1].content),
                        xml_url |->
                            IF /\ title_metadata.ret # None
                               /\ title_metadata.ret[1].up_to_date_as_of # None
                            THEN Some([date |-> title_metadata.ret[1].up_to_date_as_of[1],
                                       title |-> cfr.ret[1].title,
                                       chapter |-> cfr.ret[1].chapter,
                                       part |-> cfr.ret[1].part,
                                       subchapter |-> cfr.ret[1].subchapter])
                            ELSE None]))

\* web.py lines 379-400: the corrections are fetched and the page returned;
\* only httpx.HTTPError is caught.
cfr_corrections(s, page, upstream) ==
    IF upstream.error # "" THEN Ok(s, Some([page EXCEPT !.corrections = <<>>]))
    ELSE IF ~upstream.json THEN Raise(s, "JSONDecodeError")
    ELSE Ok(s, Some([page EXCEPT !.corrections = upstream.ecfr_corrections]))

\* web.py lines 349-400.
cfr_detail(s, cfr_id, upstream) ==
    LET page == cfr_lookup(s, cfr_id)
    IN IF page.exc # None THEN page
       ELSE cfr_corrections(page.db, page.ret[1] @@ [corrections |-> <<>>], upstream)

\* The stores that are served: up to three titles, each reserved or not,
\* and the agencies usda (with the children fs and ams) and epa, each with
\* one of two sortable names.
ServedNumbers == <<1, 7, 40>>

ServedTitle(number, reserved) ==
    [number |-> number, name |-> "Title " \o ToString(number),
     latest_amended_on |-> None, latest_issue_date |-> None,
     up_to_date_as_of |-> Some("2025-12-31"), reserved |-> Some(reserved)]

ServedTitles ==
    {[i \in 1 .. Len(listed) |-> ServedTitle(listed[i], listed[i] \in reserved)] :
        listed \in {SelectSeq(ServedNumbers, LAMBDA n : n \in S) :
                        S \in SUBSET {1, 7, 40}},
        reserved \in SUBSET {1, 7, 40}}

ServedAgency(slug, sortable_name, children) ==
    [AgencyData(slug, 1, children) EXCEPT !.sortable_name = sortable_name]

ServedForests ==
    {<<ServedAgency("usda", names[1],
                    <<ServedAgency("fs", names[2], <<>>),
                      ServedAgency("ams", names[3], <<>>)>>),
       ServedAgency("epa", names[4], <<>>)>> :
        names \in [1 .. 4 -> {"Alpha", "Bravo"}]}

ServedStores ==
    {upsert_agencies(upsert_titles(EmptyStore, titles).db, forest).db :
        titles \in ServedTitles, forest \in ServedForests}

InitList ==
    /\ committed \in ServedStores
    /\ db = committed
    /\ pc = "idle"
    /\ input = None
    /\ output = None

\* One request: get_db opens a session on the store, the handler answers,
\* and get_db closes the session without a commit.
Answer(request, response) ==
    /\ pc = "idle"
    /\ db' = response.db
    /\ input' = Some(request)
    /\ output' = [ret |-> response.ret, exc |-> response.exc]
    /\ pc' = "answered"
    /\ UNCHANGED committed

ListTitles ==
    \E skip \in 0 .. MaxSkip, limit \in 0 .. MaxLimit, include_reserved \in BOOLEAN :
        Answer([route |-> "list_titles", skip |-> skip, limit |-> limit,
                include_reserved |-> include_reserved, parent_id |-> None],
               list_titles(committed, skip, limit, include_reserved))

ListAgencies ==
    \E skip \in 0 .. MaxSkip, limit \in 0 .. MaxLimit,
       parent_id \in {None, Some(0), Some(1), Some(4)} :
        \E response \in list_agencies(committed, skip, limit, parent_id) :
            Answer([route |-> "list_agencies", skip |-> skip, limit |-> limit,
                    include_reserved |-> FALSE, parent_id |-> parent_id],
                   response)

NextList == ListTitles \/ ListAgencies

SpecList == InitList /\ [][NextList]_vars

(***************************************************************************)
(* The application: every route of the two API routers, of the web router  *)
(* and of main.py, with up to MaxInFlight requests in flight.  Each        *)
(* request has its own session (get_db); db[k] is what the session of      *)
(* request k holds, committed is the store.  A sync handler runs in one    *)
(* step; the two async pages give way to other requests while they await   *)
(* ecfr.gov.                                                               *)
(***************************************************************************)
Slots == 1 .. MaxInFlight

\* The stores that are paged: nothing, or the titles 7 and 40 (or 40 only)
\* with one forest, and summaries on none, one or all of the references.
PagedStores ==
    {EmptyStore}
    \cup {LET s == upsert_agencies(upsert_titles(EmptyStore, titles).db,
                       <<ServedAgency("usda", "Alpha",
                                      <<ServedAgency("fs", "Alpha", <<>>),
                                        ServedAgency("ams", "Bravo", <<>>)>>),
                         ServedAgency("epa", "Alpha", <<>>)>>).db
          IN [s EXCEPT !.cfr_references =
                 {IF r.id \in populated
                  THEN [r EXCEPT !.content =
                           Some(Run(" ", 2) \o Run("x", 5) \o Run(" ", 1) \o Run("y", 2))]
                  ELSE r : r \in @}] :
            titles \in {<<ServedTitle(7, FALSE), ServedTitle(40, TRUE)>>,
                        <<ServedTitle(40, TRUE)>>},
            populated \in {{}, {1}, {1, 2, 3}}}

InitServe ==
    /\ committed \in PagedStores
    /\ db = [k \in Slots |-> committed]
    /\ pc = [k \in Slots |-> "idle"]
    /\ input = [k \in Slots |-> None]
    /\ output = [k \in Slots |-> None]

Request(route, args) == [route |-> route, args |-> args, page |-> None]

\* get_db around a handler that does not await: the session is opened on
\* the store, the handler answers, and the session is closed without a
\* commit, which leaves the store as it was.
Reply(k, request, response) ==
    /\ db' = [db EXCEPT ![k] = response.db]
    /\ input' = [input EXCEPT ![k] = Some(request)]
    /\ output' = [output EXCEPT ![k] = Some([ret |-> response.ret, exc |-> response.exc])]
    /\ pc' = [pc EXCEPT ![k] = "idle"]
    /\ UNCHANGED committed

\* main.py lines 31-55 and web.py lines 162-165: no read of the store.
Static(k) ==
    \E route \in {"root", "health_check", "search_page"} :
        /\ pc[k] = "idle"
        /\ Reply(k, Request(route, <<>>), Ok(committed, Some(route)))

ServeListTitles(k) ==
    \E skip \in {0, MaxSkip}, include_reserved \in BOOLEAN :
        /\ pc[k] = "idle"
        /\ Reply(k, Request("list_titles", <<skip, MaxLimit, include_reserved>>),
                   list_titles(committed, skip, MaxLimit, include_reserved))

ServeGetTitle(k) ==
    \E title_number \in {1, 7, 40} :
        /\ pc[k] = "idle"
        /\ Reply(k, Request("get_title", <<title_number>>),
                   get_title(committed, title_number))

ServeListAgencies(k) ==
    \E parent_id \in {None, Some(1)} :
        \E response \in list_agencies(committed, 0, MaxLimit, parent_id) :
            /\ pc[k] = "idle"
            /\ Reply(k, Request("list_agencies", <<0, MaxLimit, parent_id>>), response)

ServeGetAgency(k) ==
    \E agency_id \in {1, 2, 99} :
        /\ pc[k] = "idle"
        /\ Reply(k, Request("get_agency", <<agency_id>>),
                   get_agency(committed, agency_id))

ServeGetAgencyBySlug(k) ==
    \E slug \in {"usda", "fs", "nasa"} :
        /\ pc[k] = "idle"
        /\ Reply(k, Request("get_agency_by_slug", <<slug>>),
                   get_agency_by_slug(committed, slug))

Home(k) ==
    /\ pc[k] = "idle"
    /\ Reply(k, Request("home", <<>>), home(committed))

AgenciesPage(k) ==
    \E filter \in {None, Some(""), Some("usda"), Some("zz")}, parent_only \in BOOLEAN :
        /\ pc[k] = "idle"
        /\ Reply(k, Request("agencies_page", <<filter, parent_only>>),
                   agencies_page(committed, filter, parent_only))

AgencyDetails(k) ==
    \E agency_id \in {1, 2, 99} :
        /\ pc[k] = "idle"
        /\ Reply(k, Request("agency_details", <<agency_id>>),
                   agency_details(committed, agency_id))

TitlesPage(k) ==
    \E filter \in {None, Some("4"), Some("zz")}, include_reserved \in BOOLEAN :
        /\ pc[k] = "idle"
        /\ Reply(k, Request("titles_page", <<filter, include_reserved>>),
                   titles_page(committed, filter, include_reserved))

LocalSearchResults(k) ==
    \E q \in {"x", "z"}, page \in {0, 1}, per_page \in {0, 2} :
        \E response \in local_search_results(committed, q, page, per_page) :
            /\ pc[k] = "idle"
            /\ Reply(k, Request("local_search_results", <<q, page, per_page>>),
                       response)

\* web.py lines 176-180: search_results awaits the search service before
\* it reads the store.
SearchResultsAwait(k) ==
    /\ pc[k] = "idle"
    /\ pc' = [pc EXCEPT ![k] = "awaiting"]
    /\ input' = [input EXCEPT ![k] = Some(Request("search_results", <<"x">>))]
    /\ output' = [output EXCEPT ![k] = None]
    /\ db' = [db EXCEPT ![k] = committed]
    /\ UNCHANGED committed

SearchResults(k) ==
    /\ pc[k] = "awaiting"
    /\ input[k][1].route = "search_results"
    /\ \E upstream \in SearchBehaviours :
           \E response \in search_results(db[k], input[k][1].args[1], upstream) :
               Reply(k, input[k][1], response)

\* web.py lines 352-382: cfr_detail reads the store, answers at once when
\* the reference is absent, and awaits the corrections otherwise.
CfrDetailAwait(k) ==
    \E cfr_id \in {1, 2, 99} :
        LET page == cfr_lookup(committed, cfr_id)
        IN /\ pc[k] = "idle"
           /\ IF page.exc # None
              THEN Reply(k, Request("cfr_detail", <<cfr_id>>), page)
              ELSE /\ pc' = [pc EXCEPT ![k] = "awaiting"]
                   /\ input' = [input EXCEPT ![k] =
                                    Some([route |-> "cfr_detail", args |-> <<cfr_id>>,
                                          page |-> Some(page.ret[1]
                                                        @@ [corrections |-> <<>>])])]
                   /\ output' = [output EXCEPT ![k] = None]
                   /\ db' = [db EXCEPT ![k] = page.db]
                   /\ UNCHANGED committed

CfrDetail(k) ==
    /\ pc[k] = "awaiting"
    /\ input[k][1].route = "cfr_detail"
    /\ \E upstream \in CorrectionsBehaviours :
           Reply(k, input[k][1],
                   cfr_corrections(db[k], input[k][1].page[1], upstream))

NextServe ==
    \E k \in Slots :
        \/ Static(k)
        \/ ServeListTitles(k)
        \/ ServeGetTitle(k)
        \/ ServeListAgencies(k)
        \/ ServeGetAgency(k)
        \/ ServeGetAgencyBySlug(k)
        \/ Home(k)
        \/ AgenciesPage(k)
        \/ AgencyDetails(k)
        \/ TitlesPage(k)
        \/ LocalSearchResults(k)
        \/ SearchResultsAwait(k)
        \/ SearchResults(k)
        \/ CfrDetailAwait(k)
        \/ CfrDetail(k)

SpecServe == InitServe /\ [][NextServe]_vars

(***************************************************************************)
(* The rate limiter of the content phase.                                  *)
(*                                                                         *)
(* AsyncLimiter(max_rate, time_period) of aiolimiter is a leaky bucket: a  *)
(* level that every acquisition raises by one slot, that leaks max_rate    *)
(* slots per time_period seconds, and that an acquisition may not raise    *)
(* above max_rate.  Time is counted in ticks of                            *)
(* time_period / (max_rate * UnitsPerSlot) seconds and the level in units  *)
(* of 1 / UnitsPerSlot slot, so that the bucket leaks one unit per tick.   *)
(* The loop of lines 281-306 is followed for its requests only: a request  *)
(* is answered one tick later or more, and at most MaxIdle ticks pass in   *)
(* which the loop does something else.                                     *)
(***************************************************************************)
max_rate == 100

time_period == 60

\* The ticks in a span of that many seconds.
TicksIn(seconds) == (seconds * max_rate * UnitsPerSlot) \div time_period

\* AsyncLimiter(max_rate=100, time_period=60), line 272: an empty bucket.
AsyncLimiter == [level |-> 0, last_check |-> 0]

\* AsyncLimiter._leak at time now.
leak(limiter, now) ==
    LET level == limiter.level - (now - limiter.last_check)
    IN [level |-> IF level > 0 THEN level ELSE 0, last_check |-> now]

\* AsyncLimiter.has_capacity at time now, for one slot.
has_capacity(limiter, now) ==
    leak(limiter, now).level + UnitsPerSlot <= max_rate * UnitsPerSlot

\* AsyncLimiter.acquire at a time with capacity: the level rises by a slot.
acquire(limiter, now) ==
    [leak(limiter, now) EXCEPT !.level = @ + UnitsPerSlot]

InitLimiter ==
    /\ db = EmptyStore
    /\ committed = EmptyStore
    /\ pc = "acquire"
    /\ input = None
    /\ output = [now |-> 0, limiter |-> AsyncLimiter, acquired |-> 0,
                 issued |-> <<>>, idle |-> 0]

\* Lines 96-98: `async with limiter` lets the fetch in when the bucket has
\* capacity, and the request is sent; issued lists the times of the requests.
AcquireAndGet ==
    /\ pc = "acquire"
    /\ Len(output.issued) < MaxFetches
    /\ has_capacity(output.limiter, output.now)
    /\ output' = [output EXCEPT
                      !.limiter = acquire(@, output.now),
                      !.acquired = @ + 1,
                      !.issued = Append(@, output.now)]
    /\ pc' = "get"
    /\ UNCHANGED <<db, committed, input>>

\* The response of the request arrives a tick later.
Respond ==
    /\ pc = "get"
    /\ output' = [output EXCEPT !.now = @ + 1]
    /\ pc' = "acquire"
    /\ UNCHANGED <<db, committed, input>>

\* A tick passes outside a request: the loop waits for capacity, for the
\* summarization call or for the database.
Elapse ==
    /\ pc = "acquire"
    /\ output.idle < MaxIdle
    /\ output' = [output EXCEPT !.now = @ + 1, !.idle = @ + 1]
    /\ UNCHANGED <<db, committed, pc, input>>

NextLimiter == AcquireAndGet \/ Respond \/ Elapse

SpecLimiter == InitLimiter /\ [][NextLimiter]_vars

(***************************************************************************)
(* Properties of the upserters.                                            *)
(***************************************************************************)
RowCounts(s) ==
    <<Cardinality(s.agencies), Cardinality(s.cfr_references),
      Cardinality(s.agency_cfr_references)>>

RefsOf(node) == {node.cfr_references[i] : i \in 1 .. Len(node.cfr_references)}

SameTuple(r, d) ==
    /\ r.title = d.title
    /\ r.chapter = d.chapter
    /\ r.part = d.part
    /\ r.subchapter = d.subchapter

\* The association rows that join the agency with this slug to a reference
\* row with this tuple.
AssocRows(s, slug, d) ==
    {x \in s.agency_cfr_references :
        /\ \E a \in s.agencies : a.slug = slug /\ a.id = x.agency_id
        /\ \E r \in s.cfr_references : r.id = x.cfr_reference_id /\ SameTuple(r, d)}

\* C1: upserting the same tree a second time raises nothing and adds no
\* Agency, Reference or association row; there is exactly one Agency row per
\* slug of the tree and exactly one association row per (agency, reference
\* tuple) pair of the tree.
C1_UpsertAgencyIdempotent ==
    \A t \in AgencyTrees :
        LET first == upsert_agency(db, t, None)
            second == upsert_agency(first.db, t, None)
        IN /\ first.exc = None
           /\ second.exc = None
           /\ RowCounts(second.db) = RowCounts(first.db)
           /\ \A n \in NodesOf(t) :
                  /\ Cardinality({a \in second.db.agencies : a.slug = n.slug}) = 1
                  /\ \A d \in RefsOf(n) :
                         Cardinality(AssocRows(second.db, n.slug, d)) = 1

\* C1 witness: the store is what upserting, twice, a tree with a child and
\* references leaves, and it holds a child row and association rows.
C1_Witness ==
    \E t \in AgencyTrees :
        /\ t.children # <<>>
        /\ t.cfr_references # <<>>
        /\ db = upsert_agency(upsert_agency(EmptyStore, t, None).db, t, None).db
        /\ Cardinality(db.agencies) = 2
        /\ Cardinality(db.agency_cfr_references) >= 2

\* C2: resolving a tuple twice, whatever of chapter, part and subchapter is
\* null, returns the same Reference row both times and the store holds
\* exactly one row for the tuple.
C2_ResolveTwiceSameRow ==
    \A d \in CfrRefData :
        LET first == get_or_create_cfr_reference(
                         db, d.title, d.chapter, d.part, d.subchapter)
            second == get_or_create_cfr_reference(
                          first.db, d.title, d.chapter, d.part, d.subchapter)
        IN /\ first.exc = None
           /\ second.exc = None
           /\ first.ret # None
           /\ second.ret = first.ret
           /\ Cardinality({r \in second.db.cfr_references : SameTuple(r, d)}) = 1

\* C2 witness: a row whose chapter, part and subchapter are null has been
\* created, and resolving its tuple again returns that row and adds nothing.
C2_Witness ==
    \E r \in db.cfr_references :
        /\ r.chapter = None /\ r.part = None /\ r.subchapter = None
        /\ LET again == get_or_create_cfr_reference(
                            db, r.title, r.chapter, r.part, r.subchapter)
           IN again.ret = Some(r) /\ again.db = db

RowOfSlug(s, slug) == CHOOSE a \in s.agencies : a.slug = slug

RECURSIVE ParentsMatch(_, _, _)
ParentsMatch(s, node, parent) ==
    /\ RowOfSlug(s, node.slug).parent_id =
           (IF parent = None THEN None
            ELSE Some(RowOfSlug(s, parent[1].slug).id))
    /\ \A i \in 1 .. Len(node.children) :
           ParentsMatch(s, node.children[i], Some(node))

RECURSIVE CountNodes(_)
CountNodes(t) ==
    IF t.children = <<>> THEN 1
    ELSE 1 + CountNodes(t.children[1])
           + CountNodes([t EXCEPT !.children = Tail(@)]) - 1

DistinctSlugs(t) == Cardinality({n.slug : n \in NodesOf(t)}) = CountNodes(t)

RECURSIVE ReachesRoot(_, _, _)
ReachesRoot(s, a, fuel) ==
    IF a.parent_id = None THEN TRUE
    ELSE IF fuel = 0 THEN FALSE
    ELSE LET p == {b \in s.agencies : b.id = a.parent_id[1]}
         IN p # {} /\ ReachesRoot(s, CHOOSE b \in p : TRUE, fuel - 1)

\* C5: following parent_id from any agency reaches a row whose parent_id is
\* null.
C5_NoParentCycle ==
    \A a \in db.agencies : ReachesRoot(db, a, Cardinality(db.agencies))

\* What the claim expects in a date column for an input field: null for an
\* absent field, else the date that the string writes out.
IsDateOf(col, field) ==
    IF field = None THEN col = None
    ELSE col # None /\ isoformat(col[1]) = field[1]

\* C6: upsert_title_metadata is a full overwrite keyed by number: when it
\* returns, the row of the number has name, the three dates and reserved
\* from the input (an absent date is null, an absent reserved is false), the
\* other rows are unchanged, and a row is added only when the number was
\* absent.
C6_TitleFullOverwrite ==
    \A d \in TitleData :
        LET r == upsert_title_metadata(db, d)
            existed == \E t \in db.titles : t.number = d.number
            rows == {t \in r.db.titles : t.number = d.number}
        IN r.exc = None =>
            /\ Cardinality(r.db.titles)
                   = Cardinality(db.titles) + (IF existed THEN 0 ELSE 1)
            /\ Cardinality(rows) = 1
            /\ \A row \in rows :
                   /\ row.name = d.name
                   /\ IsDateOf(row.latest_amended_on, d.latest_amended_on)
                   /\ IsDateOf(row.latest_issue_date, d.latest_issue_date)
                   /\ IsDateOf(row.up_to_date_as_of, d.up_to_date_as_of)
                   /\ row.reserved = (d.reserved = Some(TRUE))
                   /\ r.ret = Some(row)
            /\ {t \in r.db.titles : t.number # d.number}
                   = {t \in db.titles : t.number # d.number}

\* C6 witness: a row with all three dates and reserved true stands beside a
\* row that an input without dates and without reserved has left, and an
\* input without dates overwrites the first row.
C6_Witness ==
    /\ \E t \in db.titles :
           /\ t.latest_amended_on # None
           /\ t.latest_issue_date # None
           /\ t.up_to_date_as_of # None
           /\ t.reserved
           /\ \E d \in TitleData :
                  /\ d.number = t.number
                  /\ d.latest_amended_on = None
                  /\ d.reserved = None
                  /\ upsert_title_metadata(db, d).exc = None
                  /\ upsert_title_metadata(db, d).db # db
    /\ \E t \in db.titles :
           /\ t.latest_amended_on = None
           /\ t.latest_issue_date = None
           /\ t.up_to_date_as_of = None
           /\ ~t.reserved
           /\ t.name = "Agriculture (Updated)"

\* C3: no two Reference rows have the same (title, chapter, part,
\* subchapter), and an insert of a row whose tuple is already present is
\* rejected with an integrity error and leaves the store as it was.
C3_ReferenceTupleUnique ==
    /\ \A r, q \in db.cfr_references : SameTuple(r, q) => r = q
    /\ \A d \in CfrRefData :
           (\E r \in db.cfr_references : SameTuple(r, d)) =>
               LET ins == insert_cfr_reference(
                              db, d.title, d.chapter, d.part, d.subchapter)
               IN ins.exc = Some("IntegrityError") /\ ins.db = db

TupleOf(r) == <<r.title, r.chapter, r.part, r.subchapter>>

\* Every title number, agency slug, reference tuple and association pair of
\* store s is in store t, the rows keep their ids, and each pair of t joins
\* rows of t.
Grows(s, t) ==
    /\ {x.number : x \in s.titles} \subseteq {x.number : x \in t.titles}
    /\ {<<a.id, a.slug>> : a \in s.agencies}
           \subseteq {<<a.id, a.slug>> : a \in t.agencies}
    /\ {<<r.id, TupleOf(r)>> : r \in s.cfr_references}
           \subseteq {<<r.id, TupleOf(r)>> : r \in t.cfr_references}
    /\ s.agency_cfr_references \subseteq t.agency_cfr_references
    /\ \A x \in t.agency_cfr_references :
           /\ \E a \in t.agencies : a.id = x.agency_id
           /\ \E r \in t.cfr_references : r.id = x.cfr_reference_id

\* C7: no step of an ingestion run deletes: the committed title numbers,
\* agency slugs, reference tuples and association pairs only grow, and so do
\* those the open session sees unless the run is rolled back by an exception.
C7_NeverDeletes ==
    [][/\ Grows(committed, committed')
       /\ output' = None => Grows(db, db')]_vars

\* C7 witness: the committed usda row carries the fields of the second
\* edition, which no longer lists the reference (7, I, 100), and is still
\* associated with it; the fs row still carries the first edition, so a later
\* run did not list it; both titles are stored.
C7_Witness ==
    /\ pc = "idle"
    /\ \E a, b \in committed.agencies :
           /\ a.slug = "usda" /\ a.name = "usda-name-2"
           /\ b.slug = "fs" /\ b.name = "fs-name-1"
           /\ \E r \in committed.cfr_references :
                  /\ TupleOf(r) = <<Some(7), Some("I"), Some(100), None>>
                  /\ [agency_id |-> a.id, cfr_reference_id |-> r.id]
                         \in committed.agency_cfr_references
    /\ {t.number : t \in committed.titles} = TitleNumbers

BodyOf(response) == IF response.body = None THEN <<>> ELSE response.body[1]

ForestNodes(forest) == UNION {NodesOf(forest[i]) : i \in 1 .. Len(forest)}

\* C8: a run of the titles and the agencies phase on an empty store that
\* ends without an exception leaves, committed, one Title row per distinct
\* title number of the feed, one Agency row per distinct slug of the forest,
\* one Reference row per distinct reference tuple of its agencies, and one
\* association row per distinct (agency, reference tuple) pair.
C8_FreshIngestionCounts ==
    (/\ pc = "idle"
     /\ output = None
     /\ input.fetch_titles
     /\ input.fetch_agencies) =>
        LET titles == BodyOf(input.titles_response)
            nodes == ForestNodes(BodyOf(input.agencies_response))
        IN /\ committed = db
           /\ Cardinality(db.titles)
                  = Cardinality({titles[i].number : i \in 1 .. Len(titles)})
           /\ Cardinality(db.agencies) = Cardinality({n.slug : n \in nodes})
           /\ Cardinality(db.cfr_references)
                  = Cardinality(UNION {RefsOf(n) : n \in nodes})
           /\ Cardinality(db.agency_cfr_references)
                  = Cardinality(UNION {{<<n.slug, d>> : d \in RefsOf(n)} :
                                          n \in nodes})

\* C8 witness: the run of one title and one agency with one reference has
\* ended with 1 Title, 1 Agency, 1 Reference and 1 association row.
C8_Witness ==
    /\ pc = "idle"
    /\ output = None
    /\ input.fetch_titles
    /\ input.fetch_agencies
    /\ Len(BodyOf(input.titles_response)) = 1
    /\ Len(BodyOf(input.agencies_response)) = 1
    /\ Len(BodyOf(input.agencies_response)[1].cfr_references) = 1
    /\ BodyOf(input.agencies_response)[1].children = <<>>
    /\ Cardinality(committed.titles) = 1
    /\ Cardinality(committed.agencies) = 1
    /\ Cardinality(committed.cfr_references) = 1
    /\ Cardinality(committed.agency_cfr_references) = 1

\* C9 as stated: the returned string never exceeds 1,048,575 characters.
C9_OutputAtMost1048575 ==
    pc = "returned" => StrLen(output.ret) <= 1048575

\* C9 as amended: when the summarization call fails, the returned string is
\* the extracted text cut to its first 1,048,576 characters, so it never
\* exceeds 1,048,576 characters.
C9_FallbackAtMostMaxSize ==
    (pc = "returned" /\ input.api.fails) =>
        LET text == join_parts(text_parts(input.xml_content.elements))
        IN /\ StrLen(output.ret) <= 1048576
           /\ output.ret = Take(text, 1048576)
           /\ output.exc = None

\* C9 witness: the summarization call failed on a document whose text has
\* 2,000,000 characters or more and the fallback returned 1,048,576 of them.
C9_Witness ==
    /\ pc = "returned"
    /\ input.api.fails
    /\ Len(input.xml_content.elements) = 1
    /\ input.xml_content.elements[1].text = Some(Run("x", 2000000))
    /\ input.xml_content.elements[1].tail = None
    /\ StrLen(output.ret) = 1048576

\* An element fragment without text: absent, empty or whitespace only.
Blank(fragment) ==
    fragment = None \/ \A i \in 1 .. Len(fragment[1]) : fragment[1][i].c = " "

NoText(xml_content) ==
    \A i \in 1 .. Len(xml_content.elements) :
        /\ Blank(xml_content.elements[i].text)
        /\ Blank(xml_content.elements[i].tail)

C11_SummaryFailureFallsBack ==
    (/\ pc = "returned"
     /\ input.xml_content.wellformed
     /\ ~NoText(input.xml_content)
     /\ input.api.fails) =>
        LET text == join_parts(text_parts(input.xml_content.elements))
        IN /\ output.exc = None
           /\ output.calls = 1
           /\ output.ret # EmptyStr
           /\ output.ret = IF StrLen(text) > max_size
                           THEN Take(text, max_size) ELSE text

\* C11 witness: the call timed out on a document with the text "xxxxx" in
\* whitespace, and the function returned "xxxxx".
C11_Witness ==
    /\ pc = "returned"
    /\ input.api.fails
    /\ input.api.error = "APITimeoutError"
    /\ Len(input.xml_content.elements) = 1
    /\ input.xml_content.elements[1].text
           = Some(Run(" ", 2) \o Run("x", 5) \o Run(" ", 1))
    /\ input.xml_content.elements[1].tail = None
    /\ output.ret = Run("x", 5)
    /\ output.exc = None

\* C12: when the upstream request fails with a transport error, a timeout or
\* an error status, fetch_cfr_xml_content returns None, raises nothing, has
\* sent exactly one request and has made no summarization call; a call that
\* succeeds has sent exactly one request too.
C12_FetchErrorReturnsNone ==
    pc = "returned" =>
        /\ Len(output.requests) = 1
        /\ output.acquired = 1
        /\ input.upstream.error \in HTTPErrors =>
               /\ output.ret = None
               /\ output.exc = None
               /\ output.calls = 0

\* C12 witness: the request for title 7, chapter I, part 100 as of 2025-12-31
\* timed out and the function returned None after one request.
C12_Witness ==
    /\ pc = "returned"
    /\ input.upstream.error = "ReadTimeout"
    /\ output.ret = None
    /\ output.exc = None
    /\ output.requests
           = <<[url |-> "https://www.ecfr.gov/api/versioner/v1/full/2025-12-31/title-7.xml",
                chapter |-> Some("I"), part |-> Some("100"), subchapter |-> None]>>

\* C13: every content request follows an acquisition of a slot of the run's
\* limiter, and no span of time_period seconds holds more than max_rate
\* requests: the request that comes max_rate requests after another one is
\* sent time_period seconds after it or later.
C13_AtMost100PerWindow ==
    pc \in {"acquire", "get"} =>
        /\ output.acquired = Len(output.issued)
        /\ \A i \in 1 .. Len(output.issued) :
               i + 100 <= Len(output.issued) =>
                   output.issued[i + 100] >= output.issued[i] + TicksIn(60)

\* The Reference rows without their content.
Keys(refs) == {<<r.id, TupleOf(r)>> : r \in refs}

\* What the agencies phase writes.
AgencyTables(s) ==
    <<s.agencies, Keys(s.cfr_references), s.agency_cfr_references,
      s.agencies_id_seq, s.cfr_references_id_seq>>

Contents(s) == {<<r.id, r.content>> : r \in s.cfr_references}

\* C14: a run goes through the titles, the agencies and the content phase in
\* this order; a step of one phase writes nothing that belongs to another
\* phase; a phase whose flag is off changes nothing and raises nothing,
\* whatever the upstream would have answered; and a run that ends without an
\* exception holds Title rows only if the titles phase was enabled, Agency
\* rows only if the agencies phase was, contents only if the content phase
\* was, and holds the rows of every enabled phase whose feed has entries.
C14_PhasesInOrder ==
    /\ [][/\ pc = "titles" =>
                /\ pc' \in {"agencies", "dispose"}
                /\ output' = None => /\ AgencyTables(db') = AgencyTables(db)
                                     /\ Contents(db') = Contents(db)
                /\ ~input.fetch_titles => UNCHANGED <<db, committed, output>>
          /\ pc = "agencies" =>
                /\ pc' \in {"content", "dispose"}
                /\ output' = None => /\ db'.titles = db.titles
                                     /\ Contents(db) \subseteq Contents(db')
                /\ ~input.fetch_agencies => UNCHANGED <<db, committed, output>>
          /\ pc = "content" =>
                /\ pc' = "commit"
                /\ db'.titles = db.titles
                /\ AgencyTables(db') = AgencyTables(db)
                /\ ~input.fetch_cfr_content => UNCHANGED <<db, committed, output>>
          /\ pc = "commit" => pc' = "dispose" /\ db' = db
          /\ pc = "dispose" => pc' = "idle" /\ db' = db]_vars
    /\ []((pc = "idle" /\ output = None) =>
              /\ committed.titles # {} => input.fetch_titles
              /\ committed.agencies # {} => input.fetch_agencies
              /\ (\E r \in committed.cfr_references : r.content # None)
                     => input.fetch_cfr_content
              /\ (input.fetch_titles /\ BodyOf(input.titles_response) # <<>>)
                     => committed.titles # {}
              /\ (input.fetch_agencies /\ BodyOf(input.agencies_response) # <<>>)
                     => committed.agencies # {})

\* C14 witness: a run with the titles phase off and the two other phases on
\* has ended without an exception, although the titles request would have
\* failed: no Title row, the Agency rows of the feed.
C14_Witness ==
    /\ pc = "idle"
    /\ output = None
    /\ ~input.fetch_titles
    /\ input.fetch_agencies
    /\ input.fetch_cfr_content
    /\ ~input.titles_response.ok
    /\ committed.titles = {}
    /\ Cardinality(committed.agencies) = 2
    /\ committed.cfr_references # {}

\* The exception that the titles phase raises on this response, if any.
TitlesFailure(response) ==
    IF ~response.ok THEN Some("HTTPError")
    ELSE IF \E i \in 1 .. Len(BodyOf(response)) :
                \E f \in {"latest_amended_on", "latest_issue_date", "up_to_date_as_of"} :
                    parse_date(BodyOf(response)[i][f]).exc # None
         THEN Some("ValueError")
         ELSE None

\* C18: an HTTP error on the titles or on the agencies list, and a date
\* string of the titles feed that is no date, leave ingest_ecfr_data as that
\* exception: the run goes to the disposal of the engine at once, nothing of
\* the run is committed, no later phase writes, and every run ends by the
\* disposal.
C18_ExceptionPropagates ==
    /\ [][/\ (output = None /\ output' # None) =>
                 pc' = "dispose" /\ db' = committed /\ committed' = committed
          /\ output # None => UNCHANGED <<db, committed, output>>
          /\ pc' = "idle" => pc = "dispose"]_vars
    /\ [](pc \in {"dispose", "idle"} =>
              /\ (input.fetch_titles /\ TitlesFailure(input.titles_response) # None)
                     => /\ output = TitlesFailure(input.titles_response)
                        /\ committed = EmptyStore
                        /\ db = EmptyStore
              /\ (/\ input.fetch_agencies
                  /\ ~input.agencies_response.ok
                  /\ ~input.fetch_titles \/ TitlesFailure(input.titles_response) = None)
                     => /\ output = Some("HTTPError")
                        /\ committed = EmptyStore
                        /\ db = EmptyStore)

\* C18 witness: the titles phase stored its rows, the agencies list answered
\* with an HTTP error, and the run has ended with that exception and an empty
\* store, the content phase being enabled.
C18_Witness ==
    /\ pc = "idle"
    /\ output = Some("HTTPError")
    /\ input.fetch_titles
    /\ input.fetch_agencies
    /\ input.fetch_cfr_content
    /\ Len(BodyOf(input.titles_response)) = 2
    /\ TitlesFailure(input.titles_response) = None
    /\ ~input.agencies_response.ok
    /\ committed = EmptyStore

TransportErrors == {"ConnectError", "ReadTimeout"}

\* C16: an iteration of the content loop whose fetch meets a transport error
\* raises the failed counter by one, leaves the two other counters and the
\* rows as they were, and leaves the phase in its loop; the next iteration
\* can follow, and the phase ends only after the last reference.
C16_TransportErrorCounted ==
    /\ [][(/\ pc = "loop"
           /\ output'.idx = output.idx + 1
           /\ output'.last.error \in TransportErrors) =>
              /\ output'.failed_count = output.failed_count + 1
              /\ output'.updated_count = output.updated_count
              /\ output'.skipped_count = output.skipped_count
              /\ output'.last.id = input.cfr_refs[output'.idx]
              /\ db' = db
              /\ pc' = "loop"]_vars
    /\ [](pc \in {"loop", "done"})
    /\ []((pc = "loop" /\ output.idx < Len(input.cfr_refs)) => ENABLED ProcessReference)
    /\ [](pc = "done" =>
              /\ output.idx = Len(input.cfr_refs)
              /\ output.updated_count + output.failed_count + output.skipped_count
                     = Len(input.cfr_refs))

\* C16 witness: the request of the second of three references was refused
\* by the network after the first reference was updated; one failure is
\* counted and the third reference is still to come.
C16_Witness ==
    /\ pc = "loop"
    /\ Len(input.cfr_refs) = 3
    /\ output.idx = 2
    /\ output.last.error = "ConnectError"
    /\ output.failed_count = 1
    /\ output.updated_count = 1
    /\ RowOfId(db, input.cfr_refs[1]).content = Some(Run("s", 400))
    /\ RowOfId(db, input.cfr_refs[2]).content = None

\* The row that the next iteration of the loop takes.
NextRef == RowOfId(db, input.cfr_refs[output.idx + 1])

\* No Title row with the reference's title has an up_to_date_as_of date.
Undated(s, r) ==
    \A t \in s.titles : Some(t.number) = r.title => t.up_to_date_as_of = None

IsIteration == pc = "loop" /\ output'.idx = output.idx + 1

\* C17: the iteration for a reference whose title has no Title row, or a
\* Title row without up_to_date_as_of, raises the skipped counter by one and
\* nothing else: no request, no limiter slot, no summarization call, no row
\* changed, no exception; the loop goes on.
C17_UndatedSkipped ==
    [][(IsIteration /\ Undated(db, NextRef)) =>
           /\ output'.skipped_count = output.skipped_count + 1
           /\ output'.updated_count = output.updated_count
           /\ output'.failed_count = output.failed_count
           /\ output'.requests = output.requests
           /\ output'.acquired = output.acquired
           /\ output'.calls = output.calls
           /\ output'.last.outcome = "skipped"
           /\ db' = db
           /\ pc' = "loop"]_vars

\* C17 witness: the first of two references has title 40, for which no Title
\* row exists; it was skipped without a request and the second was updated.
C17_Witness ==
    /\ pc = "loop"
    /\ Len(input.cfr_refs) = 2
    /\ output.idx = 2
    /\ RowOfId(db, input.cfr_refs[1]).title = Some(40)
    /\ \A t \in db.titles : t.number # 40
    /\ RowOfId(db, input.cfr_refs[1]).content = None
    /\ output.skipped_count = 1
    /\ output.updated_count = 1
    /\ output.requests = 1
    /\ output.acquired = 1

\* C20 as stated: the iteration for a reference that has a content already
\* sends no request and leaves the content as it is.
C20_PopulatedSkipped ==
    [][(IsIteration /\ NextRef.content # None) =>
           /\ output'.requests = output.requests
           /\ db' = db]_vars

\* C20 as amended: a reference that has a content already is processed like
\* every other one: when its title has a date, one request is sent for it
\* under one limiter slot, and its content is replaced by the fetched string
\* when that string is not empty and kept when the fetch fails or gives the
\* empty string.
C20_PopulatedProcessedAgain ==
    [][(IsIteration /\ NextRef.content # None /\ ~Undated(db, NextRef)) =>
           /\ output'.requests = output.requests + 1
           /\ output'.acquired = output.acquired + 1
           /\ output'.skipped_count = output.skipped_count
           /\ output'.last.outcome = "updated" =>
                  /\ RowOfId(db', NextRef.id).content
                         \in {Some(Run("s", 400)), Some(Run("x", 5))}
                  /\ db'.cfr_references \ {RowOfId(db', NextRef.id)}
                         = db.cfr_references \ {NextRef}
                  /\ output'.updated_count = output.updated_count + 1
           /\ output'.last.outcome # "updated" =>
                  /\ db' = db
                  /\ output'.failed_count = output.failed_count + 1]_vars

\* C20 witness: a reference that had a content before the phase has been
\* fetched again and now holds the new summary.
C20_Witness ==
    /\ pc = "loop"
    /\ output.idx > 0
    /\ output.last.id \in input.populated
    /\ output.last.outcome = "updated"
    /\ output.requests = output.idx
    /\ RowOfId(db, output.last.id).content = Some(Run("s", 400))

\* C15: after every tenth processed reference, whatever happened to it and
\* to the nine before it, everything the phase wrote is committed; so fewer
\* than ten references ever carry a content that is not committed; and when
\* the phase is done everything is committed.
C15_CommitEveryTen ==
    /\ (pc = "loop" /\ output.idx > 0 /\ output.idx % 10 = 0) => committed = db
    /\ pc \in {"loop", "done"} =>
           Cardinality(db.cfr_references \ committed.cfr_references) < 10
    /\ pc = "done" => committed = db

\* A row of the natural key of the race.
RowsOfKey == {row \in committed : RowOf(input, row.by) = row}

\* Both runs found the key absent and both are over.
BothInsertedAndEnded ==
    \A r \in Runs : ~output[r].found /\ pc[r] \in {"done", "aborted"}

\* C19: when two concurrent runs both find a natural key absent and insert
\* it, the store never holds two rows with that key, and once both runs are
\* over one has committed its row and the other was aborted by an
\* IntegrityError.
C19_OneRowPerNaturalKey ==
    /\ Cardinality(RowsOfKey) <= 1
    /\ BothInsertedAndEnded =>
           \E r \in Runs :
               /\ pc[r] = "done"
               /\ \A q \in Runs \ {r} :
                      pc[q] = "aborted" /\ output[q].exc = "IntegrityError"

\* C21: a second run with the same flags and the same upstream responses
\* raises nothing and changes nothing: after each of its phases, and at its
\* end, the session and the committed store hold the rows, with the field
\* values, that the first run left.
C21_SecondRunChangesNothing ==
    input.run = 2 =>
        /\ output = None
        /\ db = input.first[1]
        /\ committed = input.first[1]

\* A second run of all three phases is over, on a store that the first run
\* changed and in which it set a content.
C21_Witness ==
    /\ input.run = 2
    /\ pc = "idle"
    /\ input.fetch_titles /\ input.fetch_agencies /\ input.fetch_cfr_content
    /\ \E r \in committed.cfr_references : r.content = Some("summary")
    /\ \E a \in committed.agencies : a.parent_id # None
    /\ committed \notin StoresBefore

\* The slugs of the nodes below the root of a tree.
SlugsBelow(t) == {n.slug : n \in NodesOf(t)} \ {t.slug}

\* The row of the slug has the id it had before the call, the four fields of
\* the input (an empty short_name being an absent one) and no parent.
OverwrittenAsRoot(before, after, t) ==
    LET old == RowOfSlug(before, t.slug)
        rows == {a \in after.agencies : a.slug = t.slug}
    IN /\ Cardinality(rows) = 1
       /\ Cardinality(after.agencies) =
              Cardinality(before.agencies)
                  + Cardinality(SlugsBelow(t) \ {a.slug : a \in before.agencies})
       /\ \A new \in rows :
              /\ new.id = old.id
              /\ new.name = t.name
              /\ new.short_name = OrNone(t.short_name)
              /\ new.display_name = t.display_name
              /\ new.sortable_name = t.sortable_name
              /\ new.parent_id = None

\* C26: after upsert_agency on a root whose slug already has a row, that
\* row has kept its id and slug, has the name, short_name, display_name and
\* sortable_name of the input and a null parent_id, and no second row with
\* the slug exists.
C26_ExistingOverwritten ==
    (/\ input # None
     /\ output.exc = None
     /\ \E a \in output.before.agencies : a.slug = input[1].slug)
        => OverwrittenAsRoot(output.before, db, input[1])

\* The sum of the three counters of the content phase.
Counted(out) == out.updated_count + out.failed_count + out.skipped_count

\* C27: after the i-th iteration of the loop updated + failed + skipped is
\* i, every iteration adding 1 to exactly one of the three counters, and at
\* the end of the phase the sum is the number of references selected at its
\* start.
C27_CountersPartition ==
    /\ [](pc \in {"loop", "done"} /\ Counted(output) = output.idx)
    /\ [](pc = "done" => Counted(output) = Len(input.cfr_refs))
    /\ [][IsIteration =>
              /\ Counted(output') = Counted(output) + 1
              /\ output'.updated_count >= output.updated_count
              /\ output'.failed_count >= output.failed_count
              /\ output'.skipped_count >= output.skipped_count]_vars

\* C27 witness: the phase is over for three references, of which one was
\* updated, one failed and one was skipped.
C27_Witness ==
    /\ pc = "done"
    /\ Len(input.cfr_refs) = 3
    /\ output.updated_count = 1
    /\ output.failed_count = 1
    /\ output.skipped_count = 1

\* What fetch_cfr_xml_content returns for a reference of a dated title.
FetchOf(s, r, upstream, api) ==
    LET title_metadata == CHOOSE t \in s.titles : Some(t.number) = r.title
    IN fetch_cfr_xml_content(
           isoformat(title_metadata.up_to_date_as_of[1]), r.title[1], r.chapter,
           r.part, r.subchapter, upstream, api).ret

\* The iteration that this upstream and this API behaviour give.
IsIterationWith(upstream, api) ==
    LET done == process_reference(db, committed, output, NextRef, upstream, api)
    IN IsIteration /\ db' = done.db /\ output' = done.output

\* C28: when the fetch of a reference returns None or the empty string, no
\* row changes, the stored content included, and the reference is counted
\* as failed and not as updated; a content is written only with a fetch
\* result that is not empty, and is that result.
C28_WrittenOnlyWithText ==
    [][\A upstream \in ContentUpstreams, api \in ContentApis :
           (IsIterationWith(upstream, api) /\ ~Undated(db, NextRef)) =>
               LET fetched == FetchOf(db, NextRef, upstream, api)
               IN IF fetched \in {None, Some(EmptyStr)}
                  THEN /\ db' = db
                       /\ output'.failed_count = output.failed_count + 1
                       /\ output'.updated_count = output.updated_count
                  ELSE /\ RowOfId(db', NextRef.id).content = fetched
                       /\ db'.cfr_references \ {RowOfId(db', NextRef.id)}
                              = db.cfr_references \ {NextRef}
                       /\ output'.updated_count = output.updated_count + 1
                       /\ output'.failed_count = output.failed_count]_vars

\* C28 witness: a reference that had a content was fetched again, the
\* upstream answered without an error, nothing came of the document, and the
\* reference is counted as failed with its old content in place.
C28_Witness ==
    /\ pc = "loop"
    /\ output.idx = 1
    /\ output.last.outcome = "failed"
    /\ output.last.error = ""
    /\ output.requests = 1
    /\ RowOfId(db, output.last.id).content = Some(Run("o", 7))

\* An exception leaves the run: the run goes to the finally clause from a
\* phase, not from the commit of line 359.
RunRaises == pc \in {"titles", "agencies", "loop"} /\ pc' = "dispose"

\* C29: the titles and agencies phases commit nothing; and when an exception
\* leaves the run during the titles phase, during the agencies phase, or in
\* the content phase before its 10th reference is done, the committed store
\* is the store of the start of the run and no write of the run is left.
C29_NothingDurableBeforeFirstCommit ==
    /\ [][(pc \in {"titles", "agencies"}) => committed' = committed]_vars
    /\ [][(RunRaises /\ (pc = "loop" => output.idx < commit_every)) =>
              /\ committed' = input.before
              /\ db' = input.before]_vars

\* C29 witness: the titles phase wrote a title, the agencies phase wrote an
\* agency, nine references were updated, the run was then left by an
\* exception, and the committed store is the one of the start.
C29_Witness ==
    /\ pc = "dispose"
    /\ input.fetch_titles /\ input.titles_response.body # None
    /\ input.titles_response.body # Some(<<>>)
    /\ input.fetch_agencies /\ input.agencies_response.body # None
    /\ input.agencies_response.body # Some(<<>>)
    /\ input.cfr_refs # <<>>
    /\ output.last.outcome = "raised"
    /\ output.updated_count = 9
    /\ committed = input.before
    /\ db = input.before

RECURSIVE PreOrderTree(_, _)
RECURSIVE PreOrderForest(_, _)
\* The nodes of a tree in depth-first pre-order, each with the slug of the
\* node above it.
PreOrderTree(t, parent) ==
    <<[node |-> t, parent |-> parent]>> \o PreOrderForest(t.children, Some(t.slug))

PreOrderForest(forest, parent) ==
    IF forest = <<>> THEN <<>>
    ELSE PreOrderTree(Head(forest), parent) \o PreOrderForest(Tail(forest), parent)

\* The positions of the slug in a pre-order.
Occurrences(visits, slug) == {i \in 1 .. Len(visits) : visits[i].node.slug = slug}

Last(S) == CHOOSE i \in S : \A j \in S : j <= i

\* The tuples of the references that the agency of the slug is joined to.
TuplesOfSlug(s, slug) ==
    {Ref(r.title, r.chapter, r.part, r.subchapter) :
        r \in {r \in s.cfr_references :
                  \E x \in s.agency_cfr_references :
                      /\ x.cfr_reference_id = r.id
                      /\ x.agency_id = RowOfSlug(s, slug).id}}

\* C30: after the agencies phase on a forest, a slug that occurs at more
\* than one node has exactly one Agency row; the row has the fields of the
\* occurrence visited last in depth-first pre-order, and as parent_id the id
\* of the row of that occurrence's parent (null for a root); the reference
\* tuples it is joined to are those of all the occurrences together.
C30_LastOccurrenceWins ==
    pc = "stored" =>
        /\ output = None
        /\ LET visits == PreOrderForest(input, None)
           IN \A slug \in Slugs :
                  Cardinality(Occurrences(visits, slug)) > 1 =>
                      LET last == visits[Last(Occurrences(visits, slug))]
                          rows == {a \in db.agencies : a.slug = slug}
                      IN /\ Cardinality(rows) = 1
                         /\ \A a \in rows :
                                /\ a.name = last.node.name
                                /\ a.short_name = OrNone(last.node.short_name)
                                /\ a.display_name = last.node.display_name
                                /\ a.sortable_name = last.node.sortable_name
                                /\ a.parent_id =
                                       (IF last.parent = None THEN None
                                        ELSE Some(RowOfSlug(db, last.parent[1]).id))
                         /\ TuplesOfSlug(db, slug) =
                                UNION {RefsOf(visits[i].node) :
                                           i \in Occurrences(visits, slug)}

\* C30 witness: the forest was usda (first edition) with the child fs, then
\* usda again as a root in the second edition; the one row of usda has the
\* fields of the second edition and the reference tuples of both.
C30_Witness ==
    /\ pc = "stored"
    /\ Len(input) = 2
    /\ input[1].slug = "usda" /\ input[2].slug = "usda"
    /\ input[1].name # input[2].name
    /\ Len(input[1].children) = 1
    /\ RowOfSlug(db, "usda").name = input[2].name
    /\ Cardinality(TuplesOfSlug(db, "usda")) = 2
    /\ Cardinality(db.agencies) = 2

\* The titles a listing request is about.
Eligible(s, request) ==
    {t \in s.titles : request.include_reserved \/ ~t.reserved}

\* The place of a title among the eligible titles in ascending number.
PlaceOf(s, request, t) ==
    Cardinality({u \in Eligible(s, request) : u.number <= t.number})

\* C24: the answer of list_titles is in strictly ascending number, holds no
\* reserved title unless include_reserved is true, and holds exactly the
\* titles at the places skip + 1 to skip + limit of the eligible titles in
\* ascending number.
C24_TitlesWindow ==
    (input # None /\ input[1].route = "list_titles") =>
        LET request == input[1]
            titles == output.ret
        IN /\ output.exc = None
           /\ \A i, j \in 1 .. Len(titles) : i < j => titles[i].number < titles[j].number
           /\ \A i \in 1 .. Len(titles) :
                  titles[i] \in committed.titles
                      /\ (request.include_reserved \/ ~titles[i].reserved)
           /\ \A t \in Eligible(committed, request) :
                  (\E i \in 1 .. Len(titles) : titles[i] = t)
                      <=> /\ PlaceOf(committed, request, t) > request.skip
                          /\ PlaceOf(committed, request, t)
                                 <= request.skip + request.limit
           /\ Len(titles) <= request.limit

\* C24 witness: of three titles, the second reserved, a request that skips
\* one and takes two, reserved ones included, got titles 7 and 40.
C24_Witness ==
    /\ input # None
    /\ input[1] = [route |-> "list_titles", skip |-> 1, limit |-> 2,
                   include_reserved |-> TRUE, parent_id |-> None]
    /\ Cardinality(committed.titles) = 3
    /\ \E t \in committed.titles : t.number = 7 /\ t.reserved
    /\ Len(output.ret) = 2
    /\ output.ret[1].number = 7
    /\ output.ret[2].number = 40

\* The agencies a listing request is about: the roots, or the children of
\* its parent_id.
Listed(s, request) ==
    {a \in s.agencies : a.parent_id = request.parent_id}

\* C25: the answer of list_agencies holds only agencies whose parent_id is
\* null when no parent_id is given, and only agencies whose parent_id is p
\* when parent_id = p; its sortable names do not descend; and it is the
\* window of at most limit agencies after the first skip of those agencies
\* in the order of their sortable names: every agency left out before the
\* window sorts no later than the window's first, every one left out after
\* it no earlier than its last.
C25_AgenciesWindow ==
    (input # None /\ input[1].route = "list_agencies") =>
        LET request == input[1]
            agencies == output.ret
            listed == Listed(committed, request)
            answered == {agencies[i] : i \in 1 .. Len(agencies)}
            before == {a \in listed \ answered :
                          \A b \in answered :
                              Collate(a.sortable_name) <= Collate(b.sortable_name)}
        IN /\ output.exc = None
           /\ answered \subseteq listed
           /\ Cardinality(answered) = Len(agencies)
           /\ \A i, j \in 1 .. Len(agencies) :
                  i < j => Collate(agencies[i].sortable_name)
                               <= Collate(agencies[j].sortable_name)
           /\ Len(agencies) =
                  (IF Cardinality(listed) <= request.skip THEN 0
                   ELSE IF Cardinality(listed) - request.skip < request.limit
                        THEN Cardinality(listed) - request.skip
                        ELSE request.limit)
           /\ answered # {} =>
                  \E first \in SUBSET (listed \ answered) :
                      /\ Cardinality(first) = request.skip
                      /\ \A a \in first, b \in answered :
                             Collate(a.sortable_name) <= Collate(b.sortable_name)
                      /\ \A a \in (listed \ answered) \ first, b \in answered :
                             Collate(b.sortable_name) <= Collate(a.sortable_name)

\* C25 witness: usda has the children fs (Bravo) and ams (Alpha); the
\* request for the children of usda that skips one and takes two got fs
\* alone.
C25_Witness ==
    /\ input # None
    /\ input[1] = [route |-> "list_agencies", skip |-> 1, limit |-> 2,
                   include_reserved |-> FALSE, parent_id |-> Some(1)]
    /\ Len(output.ret) = 1
    /\ output.ret[1].slug = "fs"
    /\ output.ret[1].sortable_name = "Bravo"
    /\ \E a \in committed.agencies : a.slug = "ams" /\ a.sortable_name = "Alpha"

\* C22: a request to any route of the application, alone or among other
\* requests in flight, leaves the Title, Agency, Reference and association
\* rows of the store as they were, and no session holds a row that differs
\* from the store.
C22_ServingNeverModifies ==
    [][/\ committed' = committed
       /\ \A k \in Slots : db'[k] = committed]_vars

\* One page is awaiting ecfr.gov while another request has been answered
\* with rows of a store that has rows.
C22_Witness ==
    /\ committed # EmptyStore
    /\ \E k, j \in Slots :
           /\ pc[k] = "awaiting"
           /\ input[j] # None /\ input[j][1].route = "agency_details"
           /\ output[j] # None /\ output[j][1].exc = None

\* The rows that the request of slot k reads by key, and the record its
\* answer carries.
RecordsRead(k) ==
    LET route == input[k][1].route
        key == input[k][1].args[1]
    IN IF route = "get_title" THEN {t \in committed.titles : t.number = key}
       ELSE IF route \in {"get_agency", "agency_details"}
       THEN {a \in committed.agencies : a.id = key}
       ELSE IF route = "get_agency_by_slug"
       THEN {a \in committed.agencies : a.slug = key}
       ELSE {r \in committed.cfr_references : r.id = key}

RecordAnswered(k) ==
    LET route == input[k][1].route
        ret == output[k][1].ret
    IN IF route = "get_title" THEN ret
       ELSE IF route \in {"get_agency", "get_agency_by_slug"} THEN ret.agency
       ELSE IF route = "agency_details" THEN ret.detail.agency
       ELSE ret[1].cfr

ReadByKey(k) ==
    /\ input[k] # None /\ output[k] # None
    /\ input[k][1].route \in {"get_title", "get_agency", "get_agency_by_slug",
                              "agency_details", "cfr_detail"}

\* C23: a read by key (title by number, agency by id, agency by slug,
\* agency details page, CFR reference page) of an absent record is answered
\* 404, and a read of a present record is answered with that record.
C23_AbsentNotFoundPresentRecord ==
    \A k \in Slots :
        ReadByKey(k) =>
            IF RecordsRead(k) = {}
            THEN output[k][1].exc \in {Some("404 Title not found"),
                                       Some("404 Agency not found"),
                                       Some("404 CFR reference not found")}
            ELSE /\ output[k][1].exc = None
                 /\ RecordAnswered(k) \in RecordsRead(k)

====
